---- MODULE Spec2Model ----
(***************************************************************************)
(* A model of the copper template engine (github.com/blizzy78/copper):     *)
(* the scope package, the renderer's output writer, the streaming lexer,   *)
(* the parser and the evaluator.  Every part has its own specifications    *)
(* over the shared variables; a specification leaves the variables of the  *)
(* other parts alone.                                                      *)
(***************************************************************************)
EXTENDS Integers, Sequences, FiniteSets, TLC

VARIABLES
    values,     \* scope: Scope.values of every scope of the chain (a nil map is the empty map)
    locked,     \* scope: Scope.locked of every scope of the chain
    lastCall,   \* scope: the most recent call on a scope (history)
    result,     \* template: the evaluation result o handed to write
    widx,       \* template: index of the next element write hands to writeSingle
    out,        \* template: the bytes written to w so far
    wstate,     \* template: "idle", "writing", "done" (write returned nil) or "failed"
    input,      \* lexer: the runes the reader delivers before io.EOF
    optStartInCode, \* lexer: Lexer.optStartInCode
    l,          \* lexer: line, col, currChar, nextChar, currEOF, nextEOF and the reader's position
    state,      \* lexer: the stateFunc the goroutine of Tokens calls next
    lpc,        \* lexer: "new", "loop", "send", "resume", "exited" (tokenCh closed) or "idle"
    sendTok,    \* lexer: the token the goroutine is blocked sending
    received,   \* consumer: the tokens received from tokenCh, in order
    consumer,   \* consumer: "receiving" or "stopped"
    doneClosed, \* consumer: the done channel has been closed
    tokens,     \* parser: the tokens the channel p.ch delivers, in order
    p,          \* parser: currToken, nextToken and the tokens not yet received from p.ch
    statements, \* parser: the statements Parse has appended so far
    parsed,     \* parser: what Parse returned: the program and the error
    ppc,        \* parser: "new", "loop", "done", "failed" or "idle"
    prog,       \* evaluator: the *ast.Program handed to Eval
    ev,         \* evaluator: the scope chain of ev.scope, loopLevel, breakRequested,
                \*            continueRequested, the rangers and what has been executed (history)
    frame,      \* evaluator: i and os of evalStatementsCaptureAll on the program's statements
    ret,        \* evaluator: what Eval returned: the value and the error
    epc,        \* evaluator: "new", "loop", "done" (Eval returned) or "idle"
    rend,       \* template: a call of Renderer.Render: the renderer, the arguments, the
                \*           scopes, the evaluation and what Render returned
    rpc,        \* template: "new", "prepared", "evaluated", "done" (Render returned) or "idle"
    rgr,        \* ranger: a ranger and the results of the calls made on it (history)
    gpc         \* ranger: "new", "ranging" or "idle"

scopeVars == <<values, locked, lastCall>>

writeVars == <<result, widx, out, wstate>>

lexVars == <<input, optStartInCode, l, state, lpc, sendTok, received, consumer, doneClosed>>

parseVars == <<tokens, p, statements, parsed, ppc>>

evalVars == <<prog, ev, frame, ret, epc>>

renderVars == <<rend, rpc>>

rangerVars == <<rgr, gpc>>

vars == <<values, locked, lastCall, result, widx, out, wstate,
          input, optStartInCode, l, state, lpc, sendTok, received, consumer, doneClosed,
          tokens, p, statements, parsed, ppc, prog, ev, frame, ret, epc, rend, rpc, rgr, gpc>>

\* The parts of the program a specification does not run.
ScopeIdle == values = <<>> /\ locked = <<>> /\ lastCall = <<>>

WriteIdle == result = <<>> /\ widx = 0 /\ out = <<>> /\ wstate = "idle"

LexerIdle ==
    /\ input = <<>> /\ optStartInCode = FALSE /\ l = <<>> /\ state = <<>>
    /\ lpc = "idle" /\ sendTok = <<>> /\ received = <<>>
    /\ consumer = "idle" /\ doneClosed = FALSE

ParserIdle ==
    /\ tokens = <<>> /\ p = <<>> /\ statements = <<>> /\ parsed = <<>> /\ ppc = "idle"

EvalIdle ==
    /\ prog = <<>> /\ ev = <<>> /\ frame = <<>> /\ ret = <<>> /\ epc = "idle"

RenderIdle == rend = <<>> /\ rpc = "idle"

RangerIdle == rgr = <<>> /\ gpc = "idle"

(***************************************************************************)
(* scope/scope.go                                                          *)
(***************************************************************************)

\* Number of scopes on the parent chain: scope 1 is the root, scope k+1 has
\* Parent = scope k.
MaxDepth == 3

Scopes == 1..MaxDepth

\* The nil *Scope.
NilScope == 0

Names == {"x", "y"}

\* The arguments name, v of the calls of Set: two values for x, one for y.
Bindings == {<<"x", 1>>, <<"x", 2>>, <<"y", 1>>}

\* Scope.Parent, fixed when the scope is constructed (Scope{Parent: &p}).
Parent(s) == s - 1

EmptyMap == [n \in {} |-> 0]

\* m[k] = v of a Go map.
MapPut(m, k, v) == [n \in (DOMAIN m) \cup {k} |-> IF n = k THEN v ELSE m[n]]

\* hasValueSelf(s, name)
hasValueSelf(vs, s, name) == name \in DOMAIN vs[s]

\* The loop of Set: starting at ps, the nearest scope that stores name, or
\* nil when the chain ends.
RECURSIVE SetWalk(_, _, _)
SetWalk(vs, ps, name) ==
    IF ps = NilScope THEN NilScope
    ELSE IF hasValueSelf(vs, ps, name) THEN ps
    ELSE SetWalk(vs, Parent(ps), name)

\* Mutant of SetStore: the value is stored in the receiver even though an
\* ancestor stores the name (shadowing instead of overwriting).
SetStore_Shadow(vs, lk, s, name, v) ==
    IF lk[s] THEN vs ELSE [vs EXCEPT ![s] = MapPut(@, name, v)]

\* Mutant of SetStore: the locked flag of the receiver is ignored.
SetStore_IgnoreLock(vs, lk, s, name, v) ==
    LET ps == SetWalk(vs, Parent(s), name) IN
    IF ps # NilScope THEN [vs EXCEPT ![ps] = MapPut(@, name, v)]
    ELSE [vs EXCEPT ![s] = MapPut(@, name, v)]

\* Scope.Set: the values of all scopes after s.Set(name, v).
SetStore(vs, lk, s, name, v) ==
    LET ps == SetWalk(vs, Parent(s), name) IN
    IF ps # NilScope THEN [vs EXCEPT ![ps] = MapPut(@, name, v)]
    ELSE IF lk[s] THEN vs
    ELSE [vs EXCEPT ![s] = MapPut(@, name, v)]

\* Scope.HasValue
RECURSIVE HasValue(_, _, _)
HasValue(vs, s, name) ==
    IF hasValueSelf(vs, s, name) THEN TRUE
    ELSE IF Parent(s) = NilScope THEN FALSE
    ELSE HasValue(vs, Parent(s), name)

\* Scope.Value: <<v, ok>>; v is 0 (the nil interface) when ok is false.
RECURSIVE Value(_, _, _)
Value(vs, s, name) ==
    IF name \in DOMAIN vs[s] THEN <<vs[s][name], TRUE>>
    ELSE IF Parent(s) = NilScope THEN <<0, FALSE>>
    ELSE Value(vs, Parent(s), name)

NoCall == [op |-> "none", s |-> NilScope, name |-> "", v |-> 0, old |-> <<0, FALSE>>]

InitScope ==
    /\ values = [s \in Scopes |-> EmptyMap]
    /\ locked = [s \in Scopes |-> FALSE]
    /\ lastCall = NoCall
    /\ WriteIdle /\ LexerIdle /\ ParserIdle /\ EvalIdle /\ RenderIdle /\ RangerIdle

\* s.Set(name, v)
Set(s, name, v) ==
    /\ values' = SetStore(values, locked, s, name, v)
    /\ lastCall' = [op |-> "Set", s |-> s, name |-> name, v |-> v,
                    old |-> Value(values, s, name)]
    /\ UNCHANGED <<locked, writeVars, lexVars, parseVars, evalVars, renderVars, rangerVars>>

\* s.Lock()
Lock(s) ==
    /\ locked' = [locked EXCEPT ![s] = TRUE]
    /\ lastCall' = [NoCall EXCEPT !.op = "Lock", !.s = s]
    /\ UNCHANGED <<values, writeVars, lexVars, parseVars, evalVars, renderVars, rangerVars>>

\* s.ClearSelf()
ClearSelf(s) ==
    /\ values' = [values EXCEPT ![s] = EmptyMap]
    /\ lastCall' = [NoCall EXCEPT !.op = "ClearSelf", !.s = s]
    /\ UNCHANGED <<locked, writeVars, lexVars, parseVars, evalVars, renderVars, rangerVars>>

NextScope ==
    \/ \E s \in Scopes, b \in Bindings : Set(s, b[1], b[2])
    \/ \E s \in Scopes : Lock(s)
    \/ \E s \in Scopes : ClearSelf(s)

SpecScope == InitScope /\ [][NextScope]_vars

\* The nearest proper ancestor of s that binds name, NilScope when none does.
NearestBinder(vs, s, name) ==
    LET A == {a \in Scopes : a < s /\ name \in DOMAIN vs[a]} IN
    IF A = {} THEN NilScope ELSE CHOOSE a \in A : \A b \in A : b <= a

\* C1: when an ancestor of s binds n, s.Set(n, v) stores v in the nearest such
\* ancestor and nowhere else: every scope binds the same names as before, and
\* that ancestor's Value(n) is v afterwards.
C1_SetUpdatesNearestAncestor ==
    [][LET c == lastCall'
           a == NearestBinder(values, c.s, c.name) IN
       (c.op = "Set" /\ a # NilScope) =>
           /\ \A t \in Scopes : DOMAIN values'[t] = DOMAIN values[t]
           /\ Value(values', a, c.name) = <<c.v, TRUE>>
           /\ \A t \in Scopes \ {a} : values'[t] = values[t]
           /\ \A n \in (DOMAIN values[a]) \ {c.name} : values'[a][n] = values[a][n]]_vars

\* Witness of C1: the last call was Set on scope 3 for a name that only the
\* root binds (scope 2 is skipped) to another value, and the root now holds
\* the new value.
C1_Witness ==
    /\ lastCall.op = "Set" /\ lastCall.s = 3
    /\ lastCall.old[2] /\ lastCall.old[1] # lastCall.v
    /\ lastCall.name \in DOMAIN values[1]
    /\ lastCall.name \notin DOMAIN values[2]
    /\ lastCall.name \notin DOMAIN values[3]
    /\ values[1][lastCall.name] = lastCall.v

\* C2: Set called directly on a locked scope, no ancestor binding the name, is
\* a no-op: the scope's bindings and every Value result seen from it stay the
\* same.
C2_LockedSetIsNoOp ==
    [][LET c == lastCall' IN
       (c.op = "Set" /\ locked[c.s] /\ NearestBinder(values, c.s, c.name) = NilScope) =>
           /\ values'[c.s] = values[c.s]
           /\ \A n \in Names : Value(values', c.s, n) = Value(values, c.s, n)]_vars

\* Witness of C2: the last call was Set on a locked scope that binds another
\* name, for a name unbound on the whole chain, and the name is still unbound.
C2_Witness ==
    /\ lastCall.op = "Set" /\ locked[lastCall.s]
    /\ ~HasValue(values, lastCall.s, lastCall.name)
    /\ DOMAIN values[lastCall.s] # {}

\* C3: when the ancestor that Set resolves to is locked, the call changes
\* nothing: the locked ancestor keeps its previous value for the name.
C3_LockedAncestorKeepsValue ==
    [][LET c == lastCall'
           a == NearestBinder(values, c.s, c.name) IN
       (c.op = "Set" /\ a # NilScope /\ locked[a]) => values'[a] = values[a]]_vars

(***************************************************************************)
(* template/renderer.go: write, writeSingle, expectSafe                    *)
(***************************************************************************)

\* Largest number of nodes (sequences and leaves) of an evaluation result.
MaxNodes == 5

\* The bytes of "!UNSAFE!".
Sentinel == <<"!", "U", "N", "S", "A", "F", "E", "!">>

NilValue == [k |-> "nil"]

SafeStringValue(t) == [k |-> "SafeString", s |-> t]

StringValue(t) == [k |-> "string", s |-> t]

IntValue(i) == [k |-> "int", i |-> i]

SliceValue(els) == [k |-> "slice", els |-> els]

\* The values an evaluation yields that are not []interface{}: nil, a
\* SafeString, an empty and a non-empty plain string, an int.
LeafValues ==
    {NilValue, SafeStringValue(<<"a">>), StringValue(<<>>), StringValue(<<"b">>), IntValue(7)}

RECURSIVE ValuesOfSize(_), SlicesOfSize(_)
\* The values with exactly n nodes.
ValuesOfSize(n) ==
    IF n = 1 THEN LeafValues \cup {SliceValue(<<>>)}
    ELSE {SliceValue(els) : els \in SlicesOfSize(n - 1)}

\* The element lists whose values have m nodes in total.
SlicesOfSize(m) ==
    IF m = 0 THEN {<<>>}
    ELSE UNION {{<<v>> \o rest : v \in ValuesOfSize(k), rest \in SlicesOfSize(m - k)} : k \in 1..m}

EvalResults == UNION {ValuesOfSize(n) : n \in 1..MaxNodes}

\* Mutant of expectSafe: a plain string is passed through to the output.
RECURSIVE expectSafe_PassString(_)
expectSafe_PassString(v) ==
    CASE v.k = "nil" -> <<>>
      [] v.k = "SafeString" -> v.s
      [] v.k = "slice" ->
            LET F[i \in 0..Len(v.els)] ==
                    IF i = 0 THEN <<>> ELSE F[i - 1] \o expectSafe_PassString(v.els[i])
            IN F[Len(v.els)]
      [] v.k = "string" -> v.s
      [] OTHER -> Sentinel

\* expectSafe(v)
RECURSIVE expectSafe(_)
expectSafe(v) ==
    CASE v.k = "nil" -> <<>>
      [] v.k = "SafeString" -> v.s
      [] v.k = "slice" ->
            LET F[i \in 0..Len(v.els)] ==
                    IF i = 0 THEN <<>> ELSE F[i - 1] \o expectSafe(v.els[i])
            IN F[Len(v.els)]
      [] v.k = "string" -> IF v.s # <<>> THEN Sentinel ELSE <<>>
      [] OTHER -> Sentinel

InitWrite ==
    /\ result \in EvalResults
    /\ widx = 1
    /\ out = <<>>
    /\ wstate = "writing"
    /\ ScopeIdle /\ LexerIdle /\ ParserIdle /\ EvalIdle /\ RenderIdle /\ RangerIdle

\* write, o is a []interface{}: one iteration of the loop, writeSingle(w, el)
\* returning nil.
WriteElement ==
    /\ wstate = "writing"
    /\ result.k = "slice"
    /\ widx <= Len(result.els)
    /\ out' = out \o expectSafe(result.els[widx])
    /\ widx' = widx + 1
    /\ UNCHANGED <<result, wstate, scopeVars, lexVars, parseVars, evalVars, renderVars, rangerVars>>

\* write, o is a []interface{}: the loop is over, write returns nil.
WriteReturn ==
    /\ wstate = "writing"
    /\ result.k = "slice"
    /\ widx > Len(result.els)
    /\ wstate' = "done"
    /\ UNCHANGED <<result, widx, out, scopeVars, lexVars, parseVars, evalVars, renderVars, rangerVars>>

\* write, o is no []interface{}: return writeSingle(w, o), w.Write succeeding.
WriteValue ==
    /\ wstate = "writing"
    /\ result.k # "slice"
    /\ out' = out \o expectSafe(result)
    /\ wstate' = "done"
    /\ UNCHANGED <<result, widx, scopeVars, lexVars, parseVars, evalVars, renderVars, rangerVars>>

\* w.Write returns an error: writeSingle and write return it.
WriteError ==
    /\ wstate = "writing"
    /\ result.k = "slice" => widx <= Len(result.els)
    /\ wstate' = "failed"
    /\ UNCHANGED <<result, widx, out, scopeVars, lexVars, parseVars, evalVars, renderVars, rangerVars>>

NextWrite ==
    \/ WriteElement
    \/ WriteReturn
    \/ WriteValue
    \/ WriteError

SpecWrite == InitWrite /\ [][NextWrite]_vars

\* The leaves of an evaluation result, left to right.
RECURSIVE LeavesOf(_)
LeavesOf(v) ==
    IF v.k # "slice" THEN <<v>>
    ELSE LET F[i \in 0..Len(v.els)] ==
                 IF i = 0 THEN <<>> ELSE F[i - 1] \o LeavesOf(v.els[i])
         IN F[Len(v.els)]

\* What a leaf contributes to the output.
LeafBytes(v) ==
    IF v.k = "nil" THEN <<>>
    ELSE IF v.k = "SafeString" THEN v.s
    ELSE IF v.k = "string" /\ v.s = <<>> THEN <<>>
    ELSE Sentinel

RECURSIVE ConcatLeafBytes(_)
ConcatLeafBytes(ls) ==
    IF ls = <<>> THEN <<>> ELSE LeafBytes(Head(ls)) \o ConcatLeafBytes(Tail(ls))

\* C4: when write has returned nil, the bytes written are the in-order
\* concatenation over the leaves of the result of: nothing for nil, the text of
\* a SafeString, nothing for an empty plain string, !UNSAFE! for any other
\* leaf; and at no time does a character of a plain string reach the output.
C4_OnlySafeStringsAreWritten ==
    /\ wstate = "done" => out = ConcatLeafBytes(LeavesOf(result))
    /\ wstate # "idle" => \A i \in 1..Len(out) : out[i] # "b"

\* Witness of C4: write has returned for a slice that holds a nested slice, a
\* SafeString and a non-empty plain string, and both the safe text and the
\* sentinel were written.
C4_Witness ==
    /\ wstate = "done"
    /\ result.k = "slice"
    /\ \E i \in 1..Len(result.els) : result.els[i].k = "slice" /\ result.els[i].els # <<>>
    /\ \E i \in 1..Len(LeavesOf(result)) : LeavesOf(result)[i] = StringValue(<<"b">>)
    /\ \E i \in 1..Len(LeavesOf(result)) : LeavesOf(result)[i].k = "SafeString"
    /\ \E i \in 1..Len(out) : out[i] = "a"
    /\ \E i \in 1..Len(out) : out[i] = "U"

(***************************************************************************)
(* lexer/lexer.go                                                          *)
(***************************************************************************)

\* The zero rune, the value of currChar and nextChar before the first read.
Nul == "NUL"

Digits == {"0", "1", "2", "3", "4", "5", "6", "7", "8", "9"}

Letters ==
    {"a", "b", "c", "d", "e", "f", "g", "h", "i", "j", "k", "l", "m",
     "n", "o", "p", "q", "r", "s", "t", "u", "v", "w", "x", "y", "z",
     "A", "B", "C", "D", "E", "F", "G", "H", "I", "J", "K", "L", "M",
     "N", "O", "P", "Q", "R", "S", "T", "U", "V", "W", "X", "Y", "Z"}

isWhitespaceChar(c) == c \in {" ", "\t", "\r", "\n"}

isIntChar(c) == c \in Digits

isIdentChar(c) == c \in Letters \/ c = "_" \/ isIntChar(c)

isIdentFirstChar(c) == isIdentChar(c) /\ ~isIntChar(c)

\* The keywords table: the token type of an identifier.
keywords(lit) ==
    CASE lit = <<"l", "e", "t">> -> "Let"
      [] lit = <<"i", "f">> -> "If"
      [] lit = <<"e", "l", "s", "e">> -> "Else"
      [] lit = <<"e", "l", "s", "e", "i", "f">> -> "ElseIf"
      [] lit = <<"e", "n", "d">> -> "End"
      [] lit = <<"f", "o", "r">> -> "For"
      [] lit = <<"b", "r", "e", "a", "k">> -> "Break"
      [] lit = <<"c", "o", "n", "t", "i", "n", "u", "e">> -> "Continue"
      [] lit = <<"i", "n">> -> "In"
      [] lit = <<"t", "r", "u", "e">> -> "True"
      [] lit = <<"f", "a", "l", "s", "e">> -> "False"
      [] lit = <<"n", "i", "l">> -> "Nil"
      [] lit = <<"c", "a", "p", "t", "u", "r", "e">> -> "Capture"
      [] OTHER -> "Ident"

\* newToken(t, literal, line, col); newErrorToken is the token of type Error.
newToken(t, literal, line, col) == [type |-> t, lit |-> literal, line |-> line, col |-> col]

newErrorToken(line, col) == newToken("Error", <<>>, line, col)

NoToken == newToken("none", <<>>, 0, 0)

\* The Lexer struct after New: the zero value.  pos counts the runes the
\* reader has delivered; fuel is the number of ReadRune calls that still
\* succeed before the reader fails with an error other than io.EOF (-1: the
\* reader does not fail).
NewLexer ==
    [line |-> 0, col |-> 0, currChar |-> Nul, nextChar |-> Nul,
     currEOF |-> FALSE, nextEOF |-> FALSE, pos |-> 0, fuel |-> -1]

\* The stateFunc values.
StateFn(f) == [f |-> f, t |-> "", lit |-> <<>>, line |-> 0, col |-> 0]

NilState == StateFn("nil")

\* l.parseToken(t, literal)
parseToken(t, literal) == [f |-> "parseToken", t |-> t, lit |-> literal, line |-> 0, col |-> 0]

\* l.parseError(err, line, col)
parseError(line, col) == [f |-> "parseError", t |-> "", lit |-> <<>>, line |-> line, col |-> col]

\* l.nextCharIs(c)
nextCharIs(lx, c) == ~lx.nextEOF /\ lx.nextChar = c

isAtCodeStart(lx) == lx.currChar = "<" /\ nextCharIs(lx, "%")

isAtCodeEnd(lx) == lx.currChar = "%" /\ nextCharIs(lx, ">")

\* F(e), with e evaluated once, for the result of a call that is used several
\* times: TLC takes a LET definition as an operator and expands it at each of
\* its uses.
Let(e, F(_)) == CHOOSE y \in {F(x) : x \in {e}} : TRUE

\* l.readNextChar(): the lexer afterwards and whether an error is returned.
readNextChar(lx) ==
    IF lx.currEOF THEN [l |-> lx, err |-> FALSE]
    ELSE IF lx.nextEOF
    THEN [l |-> [lx EXCEPT !.currEOF = TRUE, !.col = @ + 1], err |-> FALSE]
    ELSE LET l1 == IF lx.currChar = "\n"
                   THEN [lx EXCEPT !.line = @ + 1, !.col = 1]
                   ELSE [lx EXCEPT !.col = @ + 1]
         IN IF l1.fuel = 0
            THEN [l |-> l1, err |-> TRUE]
            ELSE LET l2 == [l1 EXCEPT !.fuel = IF @ > 0 THEN @ - 1 ELSE @] IN
                 IF l2.pos < Len(input)
                 THEN [l |-> [l2 EXCEPT !.currChar = l2.nextChar,
                                        !.nextChar = input[l2.pos + 1],
                                        !.pos = @ + 1],
                       err |-> FALSE]
                 ELSE [l |-> [l2 EXCEPT !.nextEOF = TRUE, !.currChar = l2.nextChar],
                       err |-> FALSE]

\* Two readNextChar calls, the second only when the first returns no error.
readTwice(lx) ==
    Let(readNextChar(lx), LAMBDA r1 : IF r1.err THEN r1 ELSE readNextChar(r1.l))

\* l.initialize()
initialize(lx) ==
    Let(readNextChar(lx), LAMBDA r1 :
        IF r1.err THEN r1
        ELSE Let(readNextChar(r1.l), LAMBDA r2 :
                 [l |-> [r2.l EXCEPT !.line = 1, !.col = 1], err |-> r2.err]))

\* l.skipWhitespace()
RECURSIVE skipWhitespace(_)
skipWhitespace(lx0) ==
    Let(lx0, LAMBDA lx :
        IF ~lx.currEOF /\ isWhitespaceChar(lx.currChar)
        THEN LET r == readNextChar(lx) IN IF r.err THEN r ELSE skipWhitespace(r.l)
        ELSE [l |-> lx, err |-> FALSE])

\* What a call state(tCh) does: the lexer afterwards, the stateFunc returned,
\* and the token it sends: none ("none"), one sent by a deferred call when
\* the function returns ("defer"), or one sent before n further reads
\* ("first", parseToken).
NoSend(lx, next) == [l |-> lx, next |-> next, send |-> "none", tok |-> NoToken]

Deferred(lx, next, tok) == [l |-> lx, next |-> next, send |-> "defer", tok |-> tok]

SendFirst(lx, next, tok) == [l |-> lx, next |-> next, send |-> "first", tok |-> tok]

\* The for loop of parseLiteral: the lexer, the buffer and the stateFunc
\* returned when the loop is left.
RECURSIVE parseLiteralLoop(_, _)
parseLiteralLoop(lx0, buf) ==
    Let(lx0, LAMBDA lx :
        IF lx.currEOF THEN [l |-> lx, buf |-> buf, next |-> StateFn("parseEOF")]
        ELSE IF isAtCodeStart(lx) THEN [l |-> lx, buf |-> buf, next |-> StateFn("parseCodeStart")]
        ELSE LET r == readNextChar(lx) IN
             IF r.err
             THEN [l |-> r.l, buf |-> Append(buf, lx.currChar), next |-> parseError(r.l.line, r.l.col)]
             ELSE parseLiteralLoop(r.l, Append(buf, lx.currChar)))

\* l.parseLiteral
parseLiteral(lx) ==
    Let(parseLiteralLoop(lx, <<>>), LAMBDA r :
        Deferred(r.l, r.next, newToken("Literal", r.buf, lx.line, lx.col)))

\* l.parseEOF
parseEOF(lx) == Deferred(lx, NilState, newToken("EOF", <<>>, lx.line, lx.col))

\* l.parseCodeStart
parseCodeStart(lx) ==
    Let(readTwice(lx), LAMBDA r :
        IF r.err THEN NoSend(r.l, parseError(r.l.line, r.l.col))
        ELSE NoSend(r.l, StateFn("parseCode")))

\* l.parseCodeEnd
parseCodeEnd(lx) ==
    Let(readTwice(lx), LAMBDA r :
        IF r.err THEN NoSend(r.l, parseError(r.l.line, r.l.col))
        ELSE NoSend(r.l, StateFn("parseLiteral")))

\* The switch of parseCode.
parseCodeSwitch(c) ==
    CASE c \in {"\"", "'"} -> StateFn("parseString")
      [] c = "=" -> StateFn("parseAssignOrEqual")
      [] c = "+" -> parseToken("Plus", <<"+">>)
      [] c = "-" -> parseToken("Minus", <<"-">>)
      [] c = "*" -> parseToken("Asterisk", <<"*">>)
      [] c = "/" -> StateFn("parseSlashOrComment")
      [] c = "!" -> StateFn("parseBangOrNotEqual")
      [] c = "%" -> StateFn("parseModOrCodeEnd")
      [] c = "(" -> parseToken("LeftParen", <<"(">>)
      [] c = ")" -> parseToken("RightParen", <<")">>)
      [] c = "[" -> parseToken("LeftBracket", <<"[">>)
      [] c = "]" -> parseToken("RightBracket", <<"]">>)
      [] c = "{" -> parseToken("LeftBrace", <<"{">>)
      [] c = "}" -> parseToken("RightBrace", <<"}">>)
      [] c = "." -> parseToken("Dot", <<".">>)
      [] c = "," -> parseToken("Comma", <<",">>)
      [] c = ":" -> parseToken("Colon", <<":">>)
      [] c = "<" -> StateFn("parseLessThanOrLessEqual")
      [] c = ">" -> StateFn("parseGreaterThanOrGreaterEqual")
      [] OTHER -> StateFn("parseIllegal")

\* l.parseCode
parseCode(lx) ==
    Let(skipWhitespace(lx), LAMBDA r :
        IF r.err THEN NoSend(r.l, parseError(r.l.line, r.l.col))
        ELSE IF isIntChar(r.l.currChar) THEN NoSend(r.l, StateFn("parseInt"))
        ELSE IF isIdentFirstChar(r.l.currChar) THEN NoSend(r.l, StateFn("parseIdent"))
        ELSE NoSend(r.l, parseCodeSwitch(r.l.currChar)))

RECURSIVE parseIntLoop(_, _)
parseIntLoop(lx0, buf) ==
    Let(lx0, LAMBDA lx :
        IF lx.currEOF THEN [l |-> lx, buf |-> buf, next |-> StateFn("parseEOF")]
        ELSE IF ~isIntChar(lx.currChar) THEN [l |-> lx, buf |-> buf, next |-> StateFn("parseCode")]
        ELSE LET r == readNextChar(lx) IN
             IF r.err
             THEN [l |-> r.l, buf |-> Append(buf, lx.currChar), next |-> parseError(r.l.line, r.l.col)]
             ELSE parseIntLoop(r.l, Append(buf, lx.currChar)))

\* l.parseInt
parseInt(lx) ==
    Let(parseIntLoop(lx, <<>>), LAMBDA r :
        Deferred(r.l, r.next, newToken("Int", r.buf, lx.line, lx.col)))

RECURSIVE parseIdentLoop(_, _)
parseIdentLoop(lx0, buf) ==
    Let(lx0, LAMBDA lx :
        IF lx.currEOF THEN [l |-> lx, buf |-> buf, next |-> StateFn("parseEOF")]
        ELSE IF ~isIdentChar(lx.currChar) THEN [l |-> lx, buf |-> buf, next |-> StateFn("parseCode")]
        ELSE LET r == readNextChar(lx) IN
             IF r.err
             THEN [l |-> r.l, buf |-> Append(buf, lx.currChar), next |-> parseError(r.l.line, r.l.col)]
             ELSE parseIdentLoop(r.l, Append(buf, lx.currChar)))

\* l.parseIdent
parseIdent(lx) ==
    Let(parseIdentLoop(lx, <<>>), LAMBDA r :
        Deferred(r.l, r.next, newToken(keywords(r.buf), r.buf, lx.line, lx.col)))

\* strings.ReplaceAll(str, old, new) for a non-empty old: the non-overlapping
\* occurrences of old, found left to right, are replaced by new.
RECURSIVE ReplaceAll(_, _, _)
ReplaceAll(str, old, new) ==
    IF Len(str) < Len(old) THEN str
    ELSE IF SubSeq(str, 1, Len(old)) = old
    THEN new \o ReplaceAll(SubSeq(str, Len(old) + 1, Len(str)), old, new)
    ELSE <<Head(str)>> \o ReplaceAll(Tail(str), old, new)

\* The six ReplaceAll calls of parseString, in the order of the code.
unescape(str) ==
    LET s1 == ReplaceAll(str, <<"\\", "r">>, <<"\r">>)
        s2 == ReplaceAll(s1, <<"\\", "n">>, <<"\n">>)
        s3 == ReplaceAll(s2, <<"\\", "t">>, <<"\t">>)
        s4 == ReplaceAll(s3, <<"\\", "\"">>, <<"\"">>)
        s5 == ReplaceAll(s4, <<"\\", "'">>, <<"'">>)
    IN ReplaceAll(s5, <<"\\", "\\">>, <<"\\">>)

\* The for loop of parseString; closed tells that the loop was left by break.
RECURSIVE parseStringLoop(_, _, _, _)
parseStringLoop(lx0, buf, startChar, prevBackslash) ==
    Let(lx0, LAMBDA lx :
        IF lx.currEOF
        THEN [l |-> lx, buf |-> buf, next |-> StateFn("parseEOF"), closed |-> FALSE]
        ELSE IF lx.currChar = startChar /\ ~prevBackslash
        THEN [l |-> lx, buf |-> buf, next |-> StateFn("parseCode"), closed |-> TRUE]
        ELSE LET r == readNextChar(lx) IN
             IF r.err
             THEN [l |-> r.l, buf |-> Append(buf, lx.currChar),
                   next |-> parseError(r.l.line, r.l.col), closed |-> FALSE]
             ELSE parseStringLoop(r.l, Append(buf, lx.currChar), startChar, lx.currChar = "\\"))

\* l.parseString
parseString(lx) ==
    Let(readNextChar(lx), LAMBDA r0 :
        IF r0.err
        THEN Deferred(r0.l, parseError(r0.l.line, r0.l.col),
                      newToken("String", <<>>, lx.line, lx.col))
        ELSE Let(parseStringLoop(r0.l, <<>>, lx.currChar, FALSE), LAMBDA r :
             IF ~r.closed
             THEN Deferred(r.l, r.next, newToken("String", r.buf, lx.line, lx.col))
             ELSE Let(readNextChar(r.l), LAMBDA r1 :
                  IF r1.err
                  THEN Deferred(r1.l, parseError(r1.l.line, r1.l.col),
                                newToken("String", r.buf, lx.line, lx.col))
                  ELSE Deferred(r1.l, StateFn("parseCode"),
                                newToken("String", unescape(r.buf), lx.line, lx.col)))))

\* The for loop of parseLineComment.
RECURSIVE parseLineCommentLoop(_)
parseLineCommentLoop(lx0) ==
    Let(lx0, LAMBDA lx :
        IF lx.currEOF THEN NoSend(lx, StateFn("parseEOF"))
        ELSE IF lx.currChar = "\n" THEN NoSend(lx, StateFn("parseCode"))
        ELSE IF ~optStartInCode /\ isAtCodeEnd(lx) THEN NoSend(lx, StateFn("parseCodeEnd"))
        ELSE LET r == readNextChar(lx) IN
             IF r.err THEN NoSend(r.l, parseError(r.l.line, r.l.col))
             ELSE parseLineCommentLoop(r.l))

\* Mutant of parseLineComment: the comment is not consumed.
parseLineComment_NotConsumed(lx) == NoSend(lx, StateFn("parseCode"))

\* l.parseLineComment
parseLineComment(lx) ==
    Let(readTwice(lx), LAMBDA r :
        IF r.err THEN NoSend(r.l, parseError(r.l.line, r.l.col))
        ELSE parseLineCommentLoop(r.l))

\* The for loop of parseBlockComment.
RECURSIVE parseBlockCommentLoop(_)
parseBlockCommentLoop(lx0) ==
    Let(lx0, LAMBDA lx :
        IF lx.currEOF THEN NoSend(lx, StateFn("parseEOF"))
        ELSE IF lx.currChar = "*" /\ nextCharIs(lx, "/")
        THEN LET r == readTwice(lx) IN
             IF r.err THEN NoSend(r.l, parseError(r.l.line, r.l.col))
             ELSE NoSend(r.l, StateFn("parseCode"))
        ELSE LET r == readNextChar(lx) IN
             IF r.err THEN NoSend(r.l, parseError(r.l.line, r.l.col))
             ELSE parseBlockCommentLoop(r.l))

\* l.parseBlockComment
parseBlockComment(lx) ==
    Let(readTwice(lx), LAMBDA r :
        IF r.err THEN NoSend(r.l, parseError(r.l.line, r.l.col))
        ELSE parseBlockCommentLoop(r.l))

\* l.parseAssignOrEqual
parseAssignOrEqual(lx) ==
    IF nextCharIs(lx, "=") THEN NoSend(lx, parseToken("Equal", <<"=", "=">>))
    ELSE NoSend(lx, parseToken("Assign", <<"=">>))

\* l.parseBangOrNotEqual
parseBangOrNotEqual(lx) ==
    IF nextCharIs(lx, "=") THEN NoSend(lx, parseToken("NotEqual", <<"!", "=">>))
    ELSE NoSend(lx, parseToken("Bang", <<"!">>))

\* l.parseModOrCodeEnd
parseModOrCodeEnd(lx) ==
    IF nextCharIs(lx, ">") THEN NoSend(lx, StateFn("parseCodeEnd"))
    ELSE NoSend(lx, parseToken("Mod", <<"%">>))

\* l.parseLessThanOrLessEqual
parseLessThanOrLessEqual(lx) ==
    IF nextCharIs(lx, "=") THEN NoSend(lx, parseToken("LessOrEqual", <<"<", "=">>))
    ELSE NoSend(lx, parseToken("LessThan", <<"<">>))

\* l.parseGreaterThanOrGreaterEqual
parseGreaterThanOrGreaterEqual(lx) ==
    IF nextCharIs(lx, "=") THEN NoSend(lx, parseToken("GreaterOrEqual", <<">", "=">>))
    ELSE NoSend(lx, parseToken("GreaterThan", <<">">>))

\* l.parseSlashOrComment
parseSlashOrComment(lx) ==
    IF nextCharIs(lx, "/") THEN NoSend(lx, StateFn("parseLineComment"))
    ELSE IF nextCharIs(lx, "*") THEN NoSend(lx, StateFn("parseBlockComment"))
    ELSE NoSend(lx, parseToken("Slash", <<"/">>))

\* The closure parseToken returns, up to its send.
parseTokenSend(lx, st) == SendFirst(lx, st, newToken(st.t, st.lit, lx.line, lx.col))

\* The closure parseToken returns, after its send: one readNextChar per rune
\* of the literal.
RECURSIVE parseTokenReads(_, _)
parseTokenReads(lx0, n) ==
    Let(lx0, LAMBDA lx :
        IF n = 0 THEN NoSend(lx, StateFn("parseCode"))
        ELSE LET r == readNextChar(lx) IN
             IF r.err THEN NoSend(r.l, parseError(r.l.line, r.l.col))
             ELSE parseTokenReads(r.l, n - 1))

\* l.parseIllegal
parseIllegal(lx) ==
    Deferred(lx, NilState, newToken("Illegal", <<lx.currChar>>, lx.line, lx.col))

\* The closure parseError returns.
parseErrorSend(lx, st) == Deferred(lx, NilState, newErrorToken(st.line, st.col))

\* state(tokenCh): the call of the stateFunc st.
CallState(st, lx) ==
    CASE st.f = "parseLiteral" -> parseLiteral(lx)
      [] st.f = "parseEOF" -> parseEOF(lx)
      [] st.f = "parseCodeStart" -> parseCodeStart(lx)
      [] st.f = "parseCodeEnd" -> parseCodeEnd(lx)
      [] st.f = "parseCode" -> parseCode(lx)
      [] st.f = "parseInt" -> parseInt(lx)
      [] st.f = "parseIdent" -> parseIdent(lx)
      [] st.f = "parseString" -> parseString(lx)
      [] st.f = "parseLineComment" -> parseLineComment(lx)
      [] st.f = "parseBlockComment" -> parseBlockComment(lx)
      [] st.f = "parseAssignOrEqual" -> parseAssignOrEqual(lx)
      [] st.f = "parseBangOrNotEqual" -> parseBangOrNotEqual(lx)
      [] st.f = "parseModOrCodeEnd" -> parseModOrCodeEnd(lx)
      [] st.f = "parseLessThanOrLessEqual" -> parseLessThanOrLessEqual(lx)
      [] st.f = "parseGreaterThanOrGreaterEqual" -> parseGreaterThanOrGreaterEqual(lx)
      [] st.f = "parseSlashOrComment" -> parseSlashOrComment(lx)
      [] st.f = "parseToken" -> parseTokenSend(lx, st)
      [] st.f = "parseIllegal" -> parseIllegal(lx)
      [] st.f = "parseError" -> parseErrorSend(lx, st)

\* Longest input of the general lexer specification.
MaxLen == 3

\* Longest input of the specification of string literals.
MaxStrLen == 5

SeqsUpTo(A, n) == UNION {[1..k -> A] : k \in 0..n}

\* The runes of the inputs: an identifier character, whitespace, the quotes and
\* the backslash, the code delimiters and the comment characters.
LexerAlphabet == {"a", " ", "\n", "\"", "\\", "<", "%", ">", "/", "*"}

\* The characters of the one- and two-character operators.
OperatorAlphabet == {"=", "!", "<", ">", "|", "&", "a"}

\* The characters of string literals, and an operator.
StringAlphabet == {"\"", "\\", "n", "+"}

DoneAlphabet == {"a", "+", " "}

\* The number of reads that succeed before the reader fails, chosen for every
\* call that reads; -1 when the reader does not fail during the call.
Fuels == {-1} \cup (0..(Len(input) + 1))

\* The state after lexer.New(r, opts...), before Tokens is called.
InitLexerOn(inputs) ==
    /\ input \in inputs
    /\ optStartInCode \in BOOLEAN
    /\ l = NewLexer
    /\ state = NilState
    /\ lpc = "new"
    /\ sendTok = NoToken
    /\ received = <<>>
    /\ consumer = "receiving"
    /\ doneClosed = FALSE
    /\ ScopeIdle /\ WriteIdle /\ ParserIdle /\ EvalIdle /\ RenderIdle /\ RangerIdle

\* Lexer.Tokens up to the go statement: initialize and the start state.
Tokens ==
    /\ lpc = "new"
    /\ \E fuel \in Fuels : \E r \in {initialize([l EXCEPT !.fuel = fuel])} :
          /\ l' = [r.l EXCEPT !.fuel = -1]
          /\ state' = IF r.err THEN parseError(r.l.line, r.l.col)
                      ELSE IF optStartInCode THEN StateFn("parseCode")
                      ELSE StateFn("parseLiteral")
    /\ lpc' = "loop"
    /\ UNCHANGED <<input, optStartInCode, sendTok, received, consumer, doneClosed,
                   scopeVars, writeVars,
                   parseVars, evalVars, renderVars, rangerVars>>

\* One iteration of the goroutine's loop, up to the send of the stateFunc
\* called or, when it sends nothing, to its return.
LexerCall ==
    /\ lpc = "loop"
    /\ state # NilState
    /\ \E fuel \in Fuels :
       \E r \in {CallState(IF l.currEOF THEN StateFn("parseEOF") ELSE state,
                            [l EXCEPT !.fuel = fuel])} :
          /\ l' = [r.l EXCEPT !.fuel = -1]
          /\ state' = r.next
          /\ sendTok' = r.tok
          /\ lpc' = CASE r.send = "none" -> "loop"
                      [] r.send = "defer" -> "send"
                      [] r.send = "first" -> "sendFirst"
    /\ UNCHANGED <<input, optStartInCode, received, consumer, doneClosed,
                   scopeVars, writeVars,
                   parseVars, evalVars, renderVars, rangerVars>>

\* tCh <- token meets a receive of the consumer (tokenCh is unbuffered).
Receive ==
    /\ lpc \in {"send", "sendFirst"}
    /\ consumer = "receiving"
    /\ received' = Append(received, sendTok)
    /\ sendTok' = NoToken
    /\ lpc' = IF lpc = "sendFirst" THEN "resume" ELSE "loop"
    /\ UNCHANGED <<input, optStartInCode, l, state, consumer, doneClosed,
                   scopeVars, writeVars,
                   parseVars, evalVars, renderVars, rangerVars>>

\* The rest of the closure of parseToken, after its send.
LexerResume ==
    /\ lpc = "resume"
    /\ \E fuel \in Fuels :
       \E r \in {parseTokenReads([l EXCEPT !.fuel = fuel], Len(state.lit))} :
          /\ l' = [r.l EXCEPT !.fuel = -1]
          /\ state' = r.next
    /\ lpc' = "loop"
    /\ UNCHANGED <<input, optStartInCode, sendTok, received, consumer, doneClosed,
                   scopeVars, writeVars,
                   parseVars, evalVars, renderVars, rangerVars>>

\* state is nil: the goroutine returns and the deferred close(tokenCh) runs.
LexerExit ==
    /\ lpc = "loop"
    /\ state = NilState
    /\ lpc' = "exited"
    /\ UNCHANGED <<input, optStartInCode, l, state, sendTok, received, consumer,
                   doneClosed, scopeVars, writeVars,
                   parseVars, evalVars, renderVars, rangerVars>>

\* The consumer returns and closes the done channel (Parser.Parse: defer
\* close(p.doneCh)); it receives no further token.
ConsumerStop ==
    /\ consumer = "receiving"
    /\ lpc # "new"
    /\ consumer' = "stopped"
    /\ doneClosed' = TRUE
    /\ UNCHANGED <<input, optStartInCode, l, state, lpc, sendTok, received,
                   scopeVars, writeVars,
                   parseVars, evalVars, renderVars, rangerVars>>

LexerGoroutine == LexerCall \/ LexerResume \/ LexerExit

NextLexer ==
    \/ Tokens
    \/ LexerCall
    \/ Receive
    \/ LexerResume
    \/ LexerExit

NextLexerDone ==
    \/ Tokens
    \/ LexerCall
    \/ Receive
    \/ LexerResume
    \/ LexerExit
    \/ ConsumerStop

\* A consumer that keeps receiving (for tok := range tCh); the Go scheduler
\* runs the goroutine whenever it is not blocked.
SpecLexer ==
    /\ InitLexerOn(SeqsUpTo(LexerAlphabet, MaxLen))
    /\ [][NextLexer]_vars
    /\ WF_vars(NextLexer)

SpecLexerOperators ==
    /\ InitLexerOn(SeqsUpTo(OperatorAlphabet, MaxLen))
    /\ [][NextLexer]_vars
    /\ WF_vars(NextLexer)

SpecLexerStrings ==
    /\ InitLexerOn(SeqsUpTo(StringAlphabet, MaxStrLen))
    /\ [][NextLexer]_vars
    /\ WF_vars(NextLexer)

\* A consumer that may return at any token boundary, closing done.
SpecLexerDone ==
    /\ InitLexerOn(SeqsUpTo(DoneAlphabet, MaxLen))
    /\ [][NextLexerDone]_vars
    /\ WF_vars(Tokens)
    /\ WF_vars(LexerGoroutine)
    /\ WF_vars(Receive)

TokenTypes(toks) == [i \in 1..Len(toks) |-> toks[i].type]

\* The type and text of a token, without its position.
TypeAndText(toks) == [i \in 1..Len(toks) |-> <<toks[i].type, toks[i].lit>>]

NoIllegalOrError(toks) ==
    \A i \in 1..Len(toks) : toks[i].type \notin {"Illegal", "Error"}

EOFOnceAndLast(toks) ==
    /\ toks # <<>>
    /\ toks[Len(toks)].type = "EOF"
    /\ \A i \in 1..(Len(toks) - 1) : toks[i].type # "EOF"

\* C5: once the consumer has closed done and stopped receiving, the goroutine
\* of Tokens eventually exits and closes the token channel.
C5_DoneStopsProduction == doneClosed ~> (lpc = "exited")

\* C6: with a consumer that keeps receiving, the goroutine of Tokens
\* eventually exits (tokenCh is closed) for every input and start mode, and
\* then, unless an ILLEGAL or error token was sent, EOF was sent exactly once
\* and last.
C6_TokensTerminatesWithEOF ==
    <>[](/\ lpc = "exited"
         /\ NoIllegalOrError(received) => EOFOnceAndLast(received))

\* Witness of C6: the goroutine has exited on an input with a comment, after
\* a token and, last, EOF were received.
C6_Witness ==
    /\ lpc = "exited"
    /\ Len(input) >= 3
    /\ \E i \in 1..(Len(input) - 1) : input[i] = "/" /\ input[i + 1] \in {"/", "*"}
    /\ Len(received) >= 2
    /\ NoIllegalOrError(received)
    /\ EOFOnceAndLast(received)

\* The input ends inside an open construct: a string without a closing quote,
\* a block comment without its end (both started in code mode), or a code
\* block without %> (started in literal mode).
EndsInsideOpenConstruct ==
    \/ /\ optStartInCode
       /\ Len(input) >= 1 /\ input[1] = "\""
       /\ \A i \in 2..Len(input) : input[i] \notin {"\"", "\\"}
    \/ /\ optStartInCode
       /\ Len(input) >= 2 /\ input[1] = "/" /\ input[2] = "*"
       /\ \A i \in 3..Len(input) : input[i] # "*"
    \/ /\ ~optStartInCode
       /\ Len(input) >= 2 /\ input[1] = "<" /\ input[2] = "%"
       /\ \A i \in 3..Len(input) : input[i] \in {"a", " "}

\* C7: when the input ends inside an open construct, the stream ends with an
\* error token.
C7_OpenConstructAtEOFIsError ==
    (lpc = "exited" /\ EndsInsideOpenConstruct) =>
        (received # <<>> /\ received[Len(received)].type = "Error")

\* The input has <% or %> and neither a string nor a comment.
HasBareDelimiter ==
    /\ \A i \in 1..Len(input) : input[i] \notin {"\"", "'", "/"}
    /\ \E i \in 1..(Len(input) - 1) :
          \/ input[i] = "<" /\ input[i + 1] = "%"
          \/ input[i] = "%" /\ input[i + 1] = ">"

\* C8: a lexer started in code mode never switches to literal mode and sends
\* no LITERAL token, and an input with <% or %> outside strings and comments
\* yields an ILLEGAL token.
C8_DelimitersIllegalInCodeMode ==
    optStartInCode =>
        /\ state.f \notin {"parseLiteral", "parseCodeStart", "parseCodeEnd"}
        /\ \A i \in 1..Len(received) : received[i].type # "Literal"
        /\ (lpc = "exited" /\ HasBareDelimiter /\ NoIllegalOrError(received)) => FALSE

\* The two-character operators and their token types.
TwoCharOperators ==
    {<<"Equal", <<"=", "=">>>>, <<"NotEqual", <<"!", "=">>>>,
     <<"LessOrEqual", <<"<", "=">>>>, <<"GreaterOrEqual", <<">", "=">>>>,
     <<"Or", <<"|", "|">>>>, <<"And", <<"&", "&">>>>}

\* C9: in code mode each of == != <= >= || && is sent as exactly one token
\* of the matching type, followed by EOF.
C9_TwoCharOperatorsAreOneToken ==
    \A op \in TwoCharOperators :
        (optStartInCode /\ input = op[2] /\ lpc = "exited"
            /\ \A i \in 1..Len(received) : received[i].type # "Error") =>
        TypeAndText(received) = <<op, <<"EOF", <<>>>>>>

EscapeChars == {"r", "n", "t", "\"", "'", "\\"}

\* The character an escape stands for.
EscapedChar(c) ==
    CASE c = "r" -> "\r" [] c = "n" -> "\n" [] c = "t" -> "\t" [] OTHER -> c

\* body is made of ordinary characters (neither backslash nor the quote q)
\* and of escapes.
RECURSIVE IsStringBody(_, _)
IsStringBody(body, q) ==
    IF body = <<>> THEN TRUE
    ELSE IF Head(body) = "\\"
    THEN Len(body) >= 2 /\ body[2] \in EscapeChars
            /\ IsStringBody(SubSeq(body, 3, Len(body)), q)
    ELSE Head(body) # q /\ IsStringBody(Tail(body), q)

\* The left-to-right decoding of a string body.
RECURSIVE DecodeBody(_)
DecodeBody(body) ==
    IF body = <<>> THEN <<>>
    ELSE IF Head(body) = "\\"
    THEN <<EscapedChar(body[2])>> \o DecodeBody(SubSeq(body, 3, Len(body)))
    ELSE <<Head(body)>> \o DecodeBody(Tail(body))

\* C10: a string literal of ordinary characters and escapes, closed by an
\* unescaped quote, is sent as one STRING token whose text is the
\* left-to-right decoding of its body, followed by EOF.
C10_StringLiteralDecoding ==
    LET body == SubSeq(input, 2, Len(input) - 1) IN
    (/\ optStartInCode /\ lpc = "exited"
     /\ Len(input) >= 2 /\ input[1] = "\"" /\ input[Len(input)] = "\""
     /\ IsStringBody(body, "\"")
     /\ \A i \in 1..Len(received) : received[i].type # "Error") =>
    TypeAndText(received) = <<<<"String", DecodeBody(body)>>, <<"EOF", <<>>>>>>

(***************************************************************************)
(* ast: the nodes of the abstract syntax tree.  A string is the sequence   *)
(* of its characters, as in the tokens of the lexer.                       *)
(***************************************************************************)

\* The nil ast.Expression and the nil *ast.Ident.
NoExpr == [k |-> "none"]

Ident(line, col, name) == [k |-> "Ident", line |-> line, col |-> col, name |-> name]

IntLiteral(line, col, value) == [k |-> "IntLiteral", line |-> line, col |-> col, value |-> value]

StringLiteral(line, col, value) ==
    [k |-> "StringLiteral", line |-> line, col |-> col, value |-> value]

BoolLiteral(line, col, value) == [k |-> "BoolLiteral", line |-> line, col |-> col, value |-> value]

NilLiteral(line, col) == [k |-> "NilLiteral", line |-> line, col |-> col]

Literal(line, col, text) == [k |-> "Literal", line |-> line, col |-> col, text |-> text]

PrefixExpression(line, col, operator, expr) ==
    [k |-> "PrefixExpression", line |-> line, col |-> col, op |-> operator, expr |-> expr]

InfixExpression(line, col, left, operator, right) ==
    [k |-> "InfixExpression", line |-> line, col |-> col,
     left |-> left, op |-> operator, right |-> right]

CallExpression(line, col, callee, params) ==
    [k |-> "CallExpression", line |-> line, col |-> col, callee |-> callee, params |-> params]

FieldExpression(line, col, callee, index) ==
    [k |-> "FieldExpression", line |-> line, col |-> col, callee |-> callee, index |-> index]

\* HashExpression.Values is a Go map: a function from the keys to the value
\* expressions, which keeps no order of the pairs.
HashExpression(line, col, vals) ==
    [k |-> "HashExpression", line |-> line, col |-> col, vals |-> vals]

Block(line, col, stmts) == [k |-> "Block", line |-> line, col |-> col, stmts |-> stmts]

ConditionalBlock(line, col, condition, block) ==
    [k |-> "ConditionalBlock", line |-> line, col |-> col, cond |-> condition, block |-> block]

IfExpression(line, col, conditionals) ==
    [k |-> "IfExpression", line |-> line, col |-> col, conds |-> conditionals]

ForExpression(line, col, ident, statusIdent, rangeExpr, block) ==
    [k |-> "ForExpression", line |-> line, col |-> col, ident |-> ident,
     statusIdent |-> statusIdent, rangeExpr |-> rangeExpr, block |-> block]

CaptureExpression(line, col, block) ==
    [k |-> "CaptureExpression", line |-> line, col |-> col, block |-> block]

\* parseLetStatement sets the position of the embedded Ident only.
LetStatement(ident, expr) == [k |-> "LetStatement", ident |-> ident, expr |-> expr]

BreakStatement(line, col) == [k |-> "BreakStatement", line |-> line, col |-> col]

ContinueStatement(line, col) == [k |-> "ContinueStatement", line |-> line, col |-> col]

ExpressionStatement(line, col, expr) ==
    [k |-> "ExpressionStatement", line |-> line, col |-> col, expr |-> expr]

Program(line, col, stmts) == [k |-> "Program", line |-> line, col |-> col, stmts |-> stmts]

(***************************************************************************)
(* parser/parser.go                                                        *)
(***************************************************************************)

precedenceLowest == 1

precedenceOr == 2

precedenceAnd == 3

precedenceEquality == 4

precedenceRelational == 5

precedenceAdditive == 6

precedenceMultiplicative == 7

precedencePrefix == 8

precedenceField == 9

\* startToken, of type -1.
startToken == newToken("start", <<>>, 0, 0)

\* The map precedences: 0 stands for a token type that is no key of it.
precedences(t) ==
    CASE t = "Or" -> precedenceOr
      [] t = "And" -> precedenceAnd
      [] t \in {"Equal", "NotEqual"} -> precedenceEquality
      [] t \in {"LessThan", "LessOrEqual", "GreaterThan", "GreaterOrEqual"} -> precedenceRelational
      [] t \in {"Plus", "Minus"} -> precedenceAdditive
      [] t \in {"Slash", "Asterisk", "Mod"} -> precedenceMultiplicative
      [] t \in {"LeftParen", "Dot", "LeftBracket"} -> precedenceField
      [] OTHER -> 0

\* parseError and the nil error.
newParseErrorf(line, col, msg) == [msg |-> msg, line |-> line, col |-> col]

NoError == newParseErrorf(0, 0, "")

\* parser.New(tCh, doneCh): ch holds the tokens not yet received from tCh.
NewParser(toks) == [curr |-> NoToken, next |-> NoToken, ch |-> toks]

\* What a parse function returns: the parser after the call, the node and
\* the error.
PR(ps, e, err) == [p |-> ps, e |-> e, err |-> err]

currTokenIs(ps, t) == ps.curr.type = t

currTokenIsOneOf(ps, ts) == \E i \in 1..Len(ts) : currTokenIs(ps, ts[i])

nextTokenIs(ps, t) == ps.next.type = t

\* p.readNextToken: the parser after the call and the error.  A receive
\* from the closed channel yields the nil token, whose dereference panics.
readNextToken(ps) ==
    IF currTokenIs(ps, "EOF") THEN [p |-> ps, err |-> NoError]
    ELSE IF ps.next.type = "EOF" THEN [p |-> [ps EXCEPT !.curr = ps.next], err |-> NoError]
    ELSE IF ps.ch = <<>>
    THEN [p |-> [ps EXCEPT !.curr = ps.next, !.next = NoToken],
          err |-> newParseErrorf(0, 0, "panic: nil pointer dereference")]
    ELSE LET t == Head(ps.ch)
             q == [curr |-> ps.next, next |-> t, ch |-> Tail(ps.ch)] IN
         IF t.type = "Error" THEN [p |-> q, err |-> newParseErrorf(t.line, t.col, "lexer error")]
         ELSE IF t.type = "Illegal"
         THEN [p |-> q, err |-> newParseErrorf(t.line, t.col, "illegal token found")]
         ELSE [p |-> q, err |-> NoError]

\* p.expectNext(t)
expectNext(ps, t) ==
    IF ~nextTokenIs(ps, t)
    THEN [p |-> ps, err |-> newParseErrorf(ps.next.line, ps.next.col, "expected token")]
    ELSE readNextToken(ps)

\* p.initialize: the registrations are prefixParseFuncs and infixParseFuncs
\* below; then currToken = nextToken = &startToken and two readNextToken.
parserInitialize(ps) ==
    Let(readNextToken([ps EXCEPT !.curr = startToken, !.next = startToken]), LAMBDA r1 :
    IF r1.err # NoError THEN r1 ELSE readNextToken(r1.p))

\* p.prefixParseFuncs: "" stands for a token type that is no key of it.
prefixParseFuncs(t) ==
    CASE t = "Ident" -> "parseIdentExpression"
      [] t = "Int" -> "parseIntLiteral"
      [] t = "String" -> "parseStringLiteral"
      [] t \in {"Bang", "Minus"} -> "parsePrefixExpression"
      [] t \in {"True", "False"} -> "parseBoolLiteral"
      [] t = "LeftParen" -> "parseGroupedExpression"
      [] t = "If" -> "parseIfExpression"
      [] t = "Nil" -> "parseNilLiteral"
      [] t = "Capture" -> "parseCaptureExpression"
      [] t = "For" -> "parseForExpression"
      [] t = "LeftBrace" -> "parseHashExpression"
      [] t = "Literal" -> "parseLiteralExpression"
      [] OTHER -> ""

\* p.infixParseFuncs
infixParseFuncs(t) ==
    CASE t \in {"Equal", "NotEqual", "LessThan", "GreaterThan", "LessOrEqual", "GreaterOrEqual",
                "Or", "And", "Plus", "Minus", "Slash", "Asterisk", "Mod"} -> "parseInfixExpression"
      [] t = "LeftParen" -> "parseCallExpression"
      [] t \in {"Dot", "LeftBracket"} -> "parseFieldExpression"
      [] OTHER -> ""

\* p.currPrecedence: <<pr, ok>>
currPrecedence(ps) == <<precedences(ps.curr.type), precedences(ps.curr.type) # 0>>

(***************************************************************************)
(* parser/expression.go, parser/statements.go.  The parse functions are    *)
(* operators from the parser before the call to PR(parser after the call,  *)
(* node, error); the for loops are the recursive ...Loop operators.        *)
(***************************************************************************)

DigitChars == <<"0", "1", "2", "3", "4", "5", "6", "7", "8", "9">>

DigitValue(c) == (CHOOSE d \in 1..10 : DigitChars[d] = c) - 1

\* The decimal digits of 1<<63 - 1, the largest int64.
MaxInt64Digits ==
    <<"9", "2", "2", "3", "3", "7", "2", "0", "3", "6", "8", "5", "4", "7", "7", "5", "8", "0", "7">>

\* The digits without their leading zeros.
RECURSIVE StripZeros(_)
StripZeros(ds) == IF ds # <<>> /\ ds[1] = "0" THEN StripZeros(Tail(ds)) ELSE ds

\* The number with the digits ds is at most 1<<63 - 1 (at most 1<<63 when
\* negative is true).
FitsInt64(ds, negative) ==
    Let(StripZeros(ds), LAMBDA d :
    LET diff == {i \in 1..Len(d) : d[i] # MaxInt64Digits[i]} IN
    \/ Len(d) < Len(MaxInt64Digits)
    \/ /\ Len(d) = Len(MaxInt64Digits)
       /\ \/ diff = {}
          \/ LET i == CHOOSE j \in diff : \A m \in diff : j <= m IN
             \/ DigitValue(d[i]) < DigitValue(MaxInt64Digits[i])
             \/ negative /\ i = Len(d) /\ d[i] = "8")

\* strconv.ParseInt(s, 10, 64): <<value, ok>>; ok is false for the empty
\* string, a character that is no digit after the optional sign, and a value
\* out of the range of int64.
ParseInt(s) ==
    LET signed == s # <<>> /\ s[1] \in {"+", "-"}
        negative == s # <<>> /\ s[1] = "-"
        digits == IF signed THEN Tail(s) ELSE s
        F[i \in 0..Len(digits)] == IF i = 0 THEN 0 ELSE F[i - 1] * 10 + DigitValue(digits[i]) IN
    IF digits = <<>> \/ \E i \in 1..Len(digits) : digits[i] \notin Digits THEN <<0, FALSE>>
    ELSE IF ~FitsInt64(digits, negative) THEN <<0, FALSE>>
    ELSE <<IF negative THEN 0 - F[Len(digits)] ELSE F[Len(digits)], TRUE>>

\* A parse function that ends with "return &e, p.readNextToken()".
ReturnReading(ps, e) == Let(readNextToken(ps), LAMBDA r : PR(r.p, e, r.err))

Fail(ps, line, col, msg) == PR(ps, NoExpr, newParseErrorf(line, col, msg))

FailAtCurr(ps, msg) == Fail(ps, ps.curr.line, ps.curr.col, msg)

parseLiteralExpression(ps) ==
    ReturnReading(ps, Literal(ps.curr.line, ps.curr.col, ps.curr.lit))

parseIdentExpr(ps) == ReturnReading(ps, Ident(ps.curr.line, ps.curr.col, ps.curr.lit))

parseIdentExpression(ps) == parseIdentExpr(ps)

parseIntLiteral(ps) ==
    Let(ParseInt(ps.curr.lit), LAMBDA v :
    IF ~v[2] THEN FailAtCurr(ps, "error parsing int literal")
    ELSE ReturnReading(ps, IntLiteral(ps.curr.line, ps.curr.col, v[1])))

parseStringLiteral(ps) ==
    ReturnReading(ps, StringLiteral(ps.curr.line, ps.curr.col, ps.curr.lit))

parseBoolLiteral(ps) ==
    ReturnReading(ps, BoolLiteral(ps.curr.line, ps.curr.col, currTokenIs(ps, "True")))

\* The position is taken after the read: it is the one of the next token.
parseNilLiteral(ps) ==
    Let(readNextToken(ps), LAMBDA r :
    IF r.err # NoError THEN PR(r.p, NoExpr, r.err)
    ELSE PR(r.p, NilLiteral(r.p.curr.line, r.p.curr.col), NoError))

RECURSIVE parseExpression(_, _), parseExpressionLoop(_, _, _), CallPrefix(_, _),
          CallInfix(_, _, _, _), parsePrefixExpression(_), parseInfixExpression(_, _, _),
          parseGroupedExpression(_), parseIfExpression(_), parseIfLoop(_, _, _, _, _, _, _, _),
          parseForExpression(_), parseForLoop(_, _), parseBlock(_, _), parseBlockLoop(_, _, _),
          parseCallExpression(_, _, _), parseCallLoop(_, _), parseFieldExpression(_, _, _),
          parseCaptureExpression(_), parseHashExpression(_), parseHashLoop(_, _, _),
          parseStatement(_), parseLetStatement(_), parseExpressionStatement(_)

\* Mutant of parseExpressionLoop: an operator of the same precedence does
\* not end the right operand (operators group right to left).
parseExpressionLoop_RightAssoc(ps, e, precedence) ==
    IF currTokenIs(ps, "EOF") THEN PR(ps, e, NoError)
    ELSE IF ~currPrecedence(ps)[2] THEN PR(ps, e, NoError)
    ELSE IF precedence > currPrecedence(ps)[1] THEN PR(ps, e, NoError)
    ELSE Let(CallInfix(infixParseFuncs(ps.curr.type), ps, e, currPrecedence(ps)[1]), LAMBDA r :
         IF r.err # NoError THEN PR(r.p, NoExpr, r.err)
         ELSE parseExpressionLoop(r.p, r.e, precedence))

\* The for loop of parseExpression (every infix parse function returns ok =
\* true when it returns no error).
parseExpressionLoop(ps, e, precedence) ==
    IF currTokenIs(ps, "EOF") THEN PR(ps, e, NoError)
    ELSE IF ~currPrecedence(ps)[2] THEN PR(ps, e, NoError)
    ELSE IF precedence >= currPrecedence(ps)[1] THEN PR(ps, e, NoError)
    ELSE Let(CallInfix(infixParseFuncs(ps.curr.type), ps, e, currPrecedence(ps)[1]), LAMBDA r :
         IF r.err # NoError THEN PR(r.p, NoExpr, r.err)
         ELSE parseExpressionLoop(r.p, r.e, precedence))

\* p.parseExpression(precedence)
parseExpression(ps, precedence) ==
    IF currTokenIs(ps, "EOF") THEN FailAtCurr(ps, "expression expected")
    ELSE IF prefixParseFuncs(ps.curr.type) = ""
    THEN FailAtCurr(ps, "no prefix parse function found")
    ELSE Let(CallPrefix(prefixParseFuncs(ps.curr.type), ps), LAMBDA r :
         IF r.err # NoError THEN PR(r.p, NoExpr, r.err)
         ELSE parseExpressionLoop(r.p, r.e, precedence))

\* parsePrefixFunc()
CallPrefix(f, ps) ==
    CASE f = "parseIdentExpression" -> parseIdentExpression(ps)
      [] f = "parseIntLiteral" -> parseIntLiteral(ps)
      [] f = "parseStringLiteral" -> parseStringLiteral(ps)
      [] f = "parsePrefixExpression" -> parsePrefixExpression(ps)
      [] f = "parseBoolLiteral" -> parseBoolLiteral(ps)
      [] f = "parseGroupedExpression" -> parseGroupedExpression(ps)
      [] f = "parseIfExpression" -> parseIfExpression(ps)
      [] f = "parseNilLiteral" -> parseNilLiteral(ps)
      [] f = "parseCaptureExpression" -> parseCaptureExpression(ps)
      [] f = "parseForExpression" -> parseForExpression(ps)
      [] f = "parseHashExpression" -> parseHashExpression(ps)
      [] f = "parseLiteralExpression" -> parseLiteralExpression(ps)

\* parseInfixFunc(e, currPrec)
CallInfix(f, ps, left, currPrec) ==
    CASE f = "parseInfixExpression" -> parseInfixExpression(ps, left, currPrec)
      [] f = "parseCallExpression" -> parseCallExpression(ps, left, currPrec)
      [] f = "parseFieldExpression" -> parseFieldExpression(ps, left, currPrec)

parsePrefixExpression(ps) ==
    Let(readNextToken(ps), LAMBDA r :
    IF r.err # NoError THEN PR(r.p, NoExpr, r.err)
    ELSE Let(parseExpression(r.p, precedencePrefix), LAMBDA x :
         IF x.err # NoError THEN x
         ELSE PR(x.p, PrefixExpression(ps.curr.line, ps.curr.col, ps.curr.lit, x.e), NoError)))

parseInfixExpression(ps, left, currPrec) ==
    Let(readNextToken(ps), LAMBDA r :
    IF r.err # NoError THEN PR(r.p, NoExpr, r.err)
    ELSE Let(parseExpression(r.p, currPrec), LAMBDA x :
         IF x.err # NoError THEN x
         ELSE PR(x.p, InfixExpression(left.line, left.col, left, ps.curr.lit, x.e), NoError)))

\* The node of the expression between the parentheses is returned as it is.
parseGroupedExpression(ps) ==
    Let(readNextToken(ps), LAMBDA r :
    IF r.err # NoError THEN PR(r.p, NoExpr, r.err)
    ELSE Let(parseExpression(r.p, precedenceLowest), LAMBDA x :
         IF x.err # NoError THEN x
         ELSE IF ~currTokenIs(x.p, "RightParen") THEN FailAtCurr(x.p, "right paren expected")
         ELSE ReturnReading(x.p, x.e)))

\* Mutant of parseIfLoop: haveElse is not tested.
parseIfLoop_ManyElse(ps, ifLine, ifCol, blockStartTokenType, blockStartLine, blockStartCol, conditionals, haveElse) ==
    IF currTokenIs(ps, "EOF") THEN FailAtCurr(ps, "premature end of file")
    ELSE Let(IF blockStartTokenType \in {"If", "ElseIf"}
                  THEN parseExpression(ps, precedenceLowest)
                  ELSE PR(ps, NoExpr, NoError), LAMBDA x :
         IF x.err # NoError THEN x
         ELSE Let(parseBlock(x.p, <<"ElseIf", "Else", "End">>), LAMBDA b :
              IF b.err # NoError THEN PR(b.p, NoExpr, b.err)
              ELSE Let(Append(conditionals,
                              ConditionalBlock(blockStartLine, blockStartCol, x.e, b.e)),
                       LAMBDA cs :
                   IF b.endToken.type = "End"
                   THEN PR(b.p, IfExpression(ifLine, ifCol, cs), NoError)
                   ELSE parseIfLoop(b.p, ifLine, ifCol, b.endToken.type, b.endToken.line,
                                    b.endToken.col, cs,
                                    haveElse \/ blockStartTokenType = "Else"))))

\* The for loop of parseIfExpression and what follows it.  The loop is left
\* without haveEnd only at EOF.
parseIfLoop(ps, ifLine, ifCol, blockStartTokenType, blockStartLine, blockStartCol, conditionals, haveElse) ==
    IF currTokenIs(ps, "EOF") THEN FailAtCurr(ps, "premature end of file")
    ELSE IF blockStartTokenType = "Else" /\ haveElse
    THEN Fail(ps, blockStartLine, blockStartCol,
              "if expression can only have a single else block")
    ELSE IF blockStartTokenType = "ElseIf" /\ haveElse
    THEN Fail(ps, blockStartLine, blockStartCol, "else block must be last in if expression")
    ELSE Let(IF blockStartTokenType \in {"If", "ElseIf"}
                  THEN parseExpression(ps, precedenceLowest)
                  ELSE PR(ps, NoExpr, NoError), LAMBDA x :
         IF x.err # NoError THEN x
         ELSE Let(parseBlock(x.p, <<"ElseIf", "Else", "End">>), LAMBDA b :
              IF b.err # NoError THEN PR(b.p, NoExpr, b.err)
              ELSE Let(Append(conditionals,
                              ConditionalBlock(blockStartLine, blockStartCol, x.e, b.e)),
                       LAMBDA cs :
                   IF b.endToken.type = "End"
                   THEN PR(b.p, IfExpression(ifLine, ifCol, cs), NoError)
                   ELSE parseIfLoop(b.p, ifLine, ifCol, b.endToken.type, b.endToken.line,
                                    b.endToken.col, cs,
                                    haveElse \/ blockStartTokenType = "Else"))))

parseIfExpression(ps) ==
    Let(readNextToken(ps), LAMBDA r :
    IF r.err # NoError THEN PR(r.p, NoExpr, r.err)
    ELSE parseIfLoop(r.p, ps.curr.line, ps.curr.col, ps.curr.type, ps.curr.line, ps.curr.col,
                     <<>>, FALSE))

\* The for loop of parseForExpression over the statements of the body.
parseForLoop(ps, stmts) ==
    IF currTokenIs(ps, "EOF") \/ currTokenIs(ps, "End") THEN PR(ps, stmts, NoError)
    ELSE Let(parseStatement(ps), LAMBDA st :
         IF st.err # NoError THEN st
         ELSE parseForLoop(st.p, Append(stmts, st.e)))

parseForExpression(ps) ==
    Let(readNextToken(ps), LAMBDA r :
    IF r.err # NoError THEN PR(r.p, NoExpr, r.err)
    ELSE
    Let(parseIdentExpr(r.p), LAMBDA ident :
    IF ident.err # NoError THEN PR(ident.p, NoExpr, ident.err)
    ELSE
    Let(IF ~currTokenIs(ident.p, "Comma") THEN PR(ident.p, NoExpr, NoError)
                  ELSE Let(readNextToken(ident.p), LAMBDA c :
                       IF c.err # NoError THEN PR(c.p, NoExpr, c.err)
                       ELSE parseIdentExpr(c.p)), LAMBDA status :
    IF status.err # NoError THEN PR(status.p, NoExpr, status.err)
    ELSE IF ~currTokenIs(status.p, "In") THEN FailAtCurr(status.p, "in keyword expected")
    ELSE
    Let(readNextToken(status.p), LAMBDA i :
    IF i.err # NoError THEN PR(i.p, NoExpr, i.err)
    ELSE
    Let(parseExpression(i.p, precedenceLowest), LAMBDA expr :
    IF expr.err # NoError THEN expr
    ELSE
    Let(parseForLoop(expr.p, <<>>), LAMBDA body :
    IF body.err # NoError THEN PR(body.p, NoExpr, body.err)
    ELSE IF ~currTokenIs(body.p, "End")
    THEN FailAtCurr(body.p, "end of for expression not found")
    ELSE
    Let(readNextToken(body.p), LAMBDA e :
    IF e.err # NoError THEN PR(e.p, NoExpr, e.err)
    ELSE PR(e.p,
            ForExpression(ps.curr.line, ps.curr.col, ident.e, status.e, expr.e,
                          Block(expr.p.curr.line, expr.p.curr.col, body.e)),
            NoError))))))))

\* The for loop of parseBlock.
parseBlockLoop(ps, endTokenTypes, stmts) ==
    IF currTokenIs(ps, "EOF") \/ currTokenIsOneOf(ps, endTokenTypes) THEN PR(ps, stmts, NoError)
    ELSE Let(parseStatement(ps), LAMBDA st :
         IF st.err # NoError THEN st
         ELSE parseBlockLoop(st.p, endTokenTypes, Append(stmts, st.e)))

\* p.parseBlock(endTokenTypes): the block, the end token and the error.
parseBlock(ps, endTokenTypes) ==
    Let(parseBlockLoop(ps, endTokenTypes, <<>>), LAMBDA body :
    LET none(q, err) == [p |-> q, e |-> NoExpr, endToken |-> NoToken, err |-> err] IN
    IF body.err # NoError THEN none(body.p, body.err)
    ELSE IF currTokenIs(body.p, "EOF")
    THEN none(body.p, newParseErrorf(body.p.curr.line, body.p.curr.col, "end of block not found"))
    ELSE Let(readNextToken(body.p), LAMBDA r :
         IF r.err # NoError THEN none(r.p, r.err)
         ELSE [p |-> r.p, e |-> Block(ps.curr.line, ps.curr.col, body.e),
               endToken |-> body.p.curr, err |-> NoError]))

\* The for loop of parseCallExpression over the parameters.
parseCallLoop(ps, params) ==
    IF currTokenIs(ps, "EOF") \/ currTokenIs(ps, "RightParen") THEN PR(ps, params, NoError)
    ELSE Let(parseExpression(ps, precedenceLowest), LAMBDA x :
         IF x.err # NoError THEN x
         ELSE IF currTokenIs(x.p, "RightParen") THEN PR(x.p, Append(params, x.e), NoError)
         ELSE IF ~currTokenIs(x.p, "Comma") THEN FailAtCurr(x.p, "comma expected")
         ELSE Let(readNextToken(x.p), LAMBDA r :
              IF r.err # NoError THEN PR(r.p, NoExpr, r.err)
              ELSE parseCallLoop(r.p, Append(params, x.e))))

parseCallExpression(ps, left, currPrec) ==
    Let(readNextToken(ps), LAMBDA r :
    IF r.err # NoError THEN PR(r.p, NoExpr, r.err)
    ELSE Let(parseCallLoop(r.p, <<>>), LAMBDA ps2 :
         IF ps2.err # NoError THEN PR(ps2.p, NoExpr, ps2.err)
         ELSE IF ~currTokenIs(ps2.p, "RightParen") THEN FailAtCurr(ps2.p, "right paren expected")
         ELSE Let(readNextToken(ps2.p), LAMBDA c :
              IF c.err # NoError THEN PR(c.p, NoExpr, c.err)
              ELSE PR(c.p, CallExpression(left.line, left.col, left, ps2.e), NoError))))

parseFieldExpression(ps, left, currPrec) ==
    Let(readNextToken(ps), LAMBDA r :
    IF r.err # NoError THEN PR(r.p, NoExpr, r.err)
    ELSE IF currTokenIs(ps, "Dot")
    THEN IF ~currTokenIs(r.p, "Ident") THEN FailAtCurr(r.p, "expected identifier as field index")
         ELSE ReturnReading(r.p,
                  FieldExpression(left.line, left.col, left,
                      StringLiteral(r.p.curr.line, r.p.curr.col, r.p.curr.lit)))
    ELSE Let(parseExpression(r.p, precedenceLowest), LAMBDA x :
         IF x.err # NoError THEN x
         ELSE IF ~currTokenIs(x.p, "RightBracket") THEN FailAtCurr(x.p, "expected right bracket")
         ELSE ReturnReading(x.p, FieldExpression(left.line, left.col, left, x.e))))

parseCaptureExpression(ps) ==
    Let(readNextToken(ps), LAMBDA r :
    IF r.err # NoError THEN PR(r.p, NoExpr, r.err)
    ELSE Let(parseBlock(r.p, <<"End">>), LAMBDA b :
         IF b.err # NoError THEN PR(b.p, NoExpr, b.err)
         ELSE PR(b.p, CaptureExpression(ps.curr.line, ps.curr.col, b.e), NoError)))

\* Mutant of parseHashLoop: a key that the map holds already is accepted,
\* the later pair replacing the earlier one.
parseHashLoop_KeepDuplicates(ps, vals, first) ==
    IF currTokenIs(ps, "EOF") \/ currTokenIs(ps, "RightBrace") THEN PR(ps, vals, NoError)
    ELSE IF ~first /\ ~currTokenIs(ps, "Comma")
    THEN FailAtCurr(ps, "expected comma before next hash element")
    ELSE
    Let(IF first THEN [p |-> ps, err |-> NoError] ELSE readNextToken(ps), LAMBDA c :
    IF c.err # NoError THEN PR(c.p, NoExpr, c.err)
    ELSE
    Let(parseExpression(c.p, precedenceLowest), LAMBDA keyExpr :
    IF keyExpr.err # NoError THEN keyExpr
    ELSE IF keyExpr.e.k # "StringLiteral"
    THEN Fail(keyExpr.p, c.p.curr.line, c.p.curr.col, "key in hash expression is not a string")
    ELSE IF ~currTokenIs(keyExpr.p, "Colon")
    THEN FailAtCurr(keyExpr.p, "expected colon after key in hash expression")
    ELSE
    Let(readNextToken(keyExpr.p), LAMBDA r :
    IF r.err # NoError THEN PR(r.p, NoExpr, r.err)
    ELSE IF keyExpr.e.value = <<>>
    THEN Fail(r.p, c.p.curr.line, c.p.curr.col, "empty key in hash expression")
    ELSE
    Let(parseExpression(r.p, precedenceLowest), LAMBDA value :
    IF value.err # NoError THEN value
    ELSE parseHashLoop(value.p, MapPut(vals, keyExpr.e.value, value.e), FALSE)))))

\* The for loop of parseHashExpression over the pairs.
parseHashLoop(ps, vals, first) ==
    IF currTokenIs(ps, "EOF") \/ currTokenIs(ps, "RightBrace") THEN PR(ps, vals, NoError)
    ELSE IF ~first /\ ~currTokenIs(ps, "Comma")
    THEN FailAtCurr(ps, "expected comma before next hash element")
    ELSE
    Let(IF first THEN [p |-> ps, err |-> NoError] ELSE readNextToken(ps), LAMBDA c :
    IF c.err # NoError THEN PR(c.p, NoExpr, c.err)
    ELSE
    Let(parseExpression(c.p, precedenceLowest), LAMBDA keyExpr :
    IF keyExpr.err # NoError THEN keyExpr
    ELSE IF keyExpr.e.k # "StringLiteral"
    THEN Fail(keyExpr.p, c.p.curr.line, c.p.curr.col, "key in hash expression is not a string")
    ELSE IF ~currTokenIs(keyExpr.p, "Colon")
    THEN FailAtCurr(keyExpr.p, "expected colon after key in hash expression")
    ELSE
    Let(readNextToken(keyExpr.p), LAMBDA r :
    IF r.err # NoError THEN PR(r.p, NoExpr, r.err)
    ELSE IF keyExpr.e.value = <<>>
    THEN Fail(r.p, c.p.curr.line, c.p.curr.col, "empty key in hash expression")
    ELSE IF keyExpr.e.value \in DOMAIN vals
    THEN Fail(r.p, c.p.curr.line, c.p.curr.col, "duplicate key in hash expression")
    ELSE
    Let(parseExpression(r.p, precedenceLowest), LAMBDA value :
    IF value.err # NoError THEN value
    ELSE parseHashLoop(value.p, MapPut(vals, keyExpr.e.value, value.e), FALSE)))))

parseHashExpression(ps) ==
    Let(readNextToken(ps), LAMBDA r :
    IF r.err # NoError THEN PR(r.p, NoExpr, r.err)
    ELSE Let(parseHashLoop(r.p, EmptyMap, TRUE), LAMBDA h :
         IF h.err # NoError THEN PR(h.p, NoExpr, h.err)
         ELSE IF ~currTokenIs(h.p, "RightBrace")
         THEN FailAtCurr(h.p, "expected right brace to end hash expression")
         ELSE Let(readNextToken(h.p), LAMBDA c :
              IF c.err # NoError THEN PR(c.p, NoExpr, c.err)
              ELSE PR(c.p, HashExpression(ps.curr.line, ps.curr.col, h.e), NoError))))

parseLetStatement(ps) ==
    Let(expectNext(ps, "Ident"), LAMBDA i :
    IF i.err # NoError THEN PR(i.p, NoExpr, i.err)
    ELSE Let(expectNext(i.p, "Assign"), LAMBDA a :
         IF a.err # NoError THEN PR(a.p, NoExpr, a.err)
         ELSE Let(readNextToken(a.p), LAMBDA r :
              IF r.err # NoError THEN PR(r.p, NoExpr, r.err)
              ELSE Let(parseExpression(r.p, precedenceLowest), LAMBDA x :
                   IF x.err # NoError THEN x
                   ELSE PR(x.p,
                           LetStatement(Ident(ps.curr.line, ps.curr.col, i.p.curr.lit), x.e),
                           NoError)))))

parseBreakStatement(ps) ==
    Let(readNextToken(ps), LAMBDA r :
    IF r.err # NoError THEN PR(r.p, NoExpr, r.err)
    ELSE PR(r.p, BreakStatement(ps.curr.line, ps.curr.col), NoError))

parseContinueStatement(ps) ==
    Let(readNextToken(ps), LAMBDA r :
    IF r.err # NoError THEN PR(r.p, NoExpr, r.err)
    ELSE PR(r.p, ContinueStatement(ps.curr.line, ps.curr.col), NoError))

parseExpressionStatement(ps) ==
    Let(parseExpression(ps, precedenceLowest), LAMBDA x :
    IF x.err # NoError THEN x
    ELSE PR(x.p, ExpressionStatement(ps.curr.line, ps.curr.col, x.e), NoError))

parseStatement(ps) ==
    CASE ps.curr.type = "Let" -> parseLetStatement(ps)
      [] ps.curr.type = "Break" -> parseBreakStatement(ps)
      [] ps.curr.type = "Continue" -> parseContinueStatement(ps)
      [] OTHER -> parseExpressionStatement(ps)

(***************************************************************************)
(* Parser.Parse as a state machine: initialize, then one step for every    *)
(* iteration of its statement loop, then the return.                       *)
(***************************************************************************)

\* Nothing returned yet; line and col are the locals of Parse.
NoParsed == [program |-> NoExpr, err |-> NoError, line |-> 0, col |-> 0]

\* The tokens of a one-line input: the i-th symbol <<type, literal>> is at
\* column i, and the EOF token follows the last one.
MkTokens(syms) ==
    [i \in 1..(Len(syms) + 1) |->
        IF i <= Len(syms) THEN newToken(syms[i][1], syms[i][2], 1, i)
        ELSE newToken("EOF", <<>>, 1, i)]

\* The state after parser.New(tCh, doneCh), before Parse is called.
InitParserOn(inputs) ==
    /\ tokens \in inputs
    /\ p = NewParser(tokens)
    /\ statements = <<>>
    /\ parsed = NoParsed
    /\ ppc = "new"
    /\ ScopeIdle /\ WriteIdle /\ LexerIdle /\ EvalIdle /\ RenderIdle /\ RangerIdle

\* Parse up to its loop: p.initialize() and the position of the program.
ParseInitialize ==
    /\ ppc = "new"
    /\ \E r \in {parserInitialize(p)} :
          /\ p' = r.p
          /\ IF r.err # NoError
             THEN /\ parsed' = [parsed EXCEPT !.err = r.err]
                  /\ ppc' = "failed"
             ELSE /\ parsed' = [parsed EXCEPT !.line = r.p.curr.line, !.col = r.p.curr.col]
                  /\ ppc' = "loop"
    /\ UNCHANGED <<tokens, statements, scopeVars, writeVars, lexVars, evalVars, renderVars, rangerVars>>

\* One iteration of the loop of Parse: parseStatement, and either the
\* statement is appended or Parse returns the error.
ParseStatement ==
    /\ ppc = "loop"
    /\ ~currTokenIs(p, "EOF")
    /\ \E r \in {parseStatement(p)} :
          /\ p' = r.p
          /\ IF r.err # NoError
             THEN /\ parsed' = [parsed EXCEPT !.err = r.err]
                  /\ ppc' = "failed"
                  /\ UNCHANGED statements
             ELSE /\ statements' = Append(statements, r.e)
                  /\ UNCHANGED <<parsed, ppc>>
    /\ UNCHANGED <<tokens, scopeVars, writeVars, lexVars, evalVars, renderVars, rangerVars>>

\* The current token is EOF: Parse returns the program.
ParseReturn ==
    /\ ppc = "loop"
    /\ currTokenIs(p, "EOF")
    /\ parsed' = [parsed EXCEPT !.program = Program(parsed.line, parsed.col, statements)]
    /\ ppc' = "done"
    /\ UNCHANGED <<tokens, p, statements, scopeVars, writeVars, lexVars, evalVars, renderVars, rangerVars>>

NextParser == ParseInitialize \/ ParseStatement \/ ParseReturn

\* Largest number of tokens of an input before its EOF token.
MaxTokens == 5

AtomSymbols == {<<"Ident", <<"a">>>>, <<"Int", <<"1", "2">>>>}

PrefixSymbols == {<<"Bang", <<"!">>>>, <<"Minus", <<"-">>>>}

BinarySymbols ==
    {<<"Or", <<"|", "|">>>>, <<"And", <<"&", "&">>>>, <<"Equal", <<"=", "=">>>>,
     <<"LessThan", <<"<">>>>, <<"Plus", <<"+">>>>, <<"Minus", <<"-">>>>, <<"Slash", <<"/">>>>}

DotSymbol == <<"Dot", <<".">>>>

\* The symbols that can follow the symbols s in an expression without
\* parentheses: an operand or a prefix operator at the start and after an
\* operator, an identifier after a dot, a binary operator or a dot after an
\* operand.
ExpressionNext(s) ==
    IF s = <<>> THEN AtomSymbols \cup PrefixSymbols
    ELSE IF s[Len(s)] \in AtomSymbols THEN BinarySymbols \cup {DotSymbol}
    ELSE IF s[Len(s)] = DotSymbol THEN {<<"Ident", <<"a">>>>}
    ELSE AtomSymbols \cup PrefixSymbols

\* The expressions of at most n symbols and their beginnings.
RECURSIVE ExpressionPrefixes(_)
ExpressionPrefixes(n) ==
    IF n = 0 THEN {<<>>}
    ELSE LET S == ExpressionPrefixes(n - 1) IN
         S \cup UNION {{Append(s, t) : t \in ExpressionNext(s)} : s \in {x \in S : Len(x) = n - 1}}

ExpressionInputs == {MkTokens(s) : s \in ExpressionPrefixes(MaxTokens)}

SpecParserExpressions == InitParserOn(ExpressionInputs) /\ [][NextParser]_vars

\* The tokens of the input before the EOF token.
Body == SubSeq(tokens, 1, Len(tokens) - 1)

\* Index i of s holds a binary operator: an operator token after an operand.
IsBinaryAt(s, i) ==
    /\ 1 < i /\ i < Len(s)
    /\ precedences(s[i].type) \in precedenceOr..precedenceMultiplicative
    /\ s[i - 1].type \in {"Ident", "Int"}

\* The value of the int literals of the inputs.
RefIntValue(lit) == CASE lit = <<"1", "2">> -> 12

\* The tree of the expression s by the grammar: s is split at the last of
\* its binary operators of lowest precedence; without a binary operator a
\* leading prefix operator applies to the rest; without that, the last
\* .name is a field access on what precedes it.  Every node is at the
\* position of the first token of its expression.
RECURSIVE RefTree(_)
RefTree(s) ==
    LET bin == {i \in 1..Len(s) : IsBinaryAt(s, i)} IN
    IF bin # {}
    THEN LET lo == CHOOSE i \in bin : \A j \in bin : precedences(s[i].type) <= precedences(s[j].type)
             at == CHOOSE i \in bin :
                      /\ precedences(s[i].type) = precedences(s[lo].type)
                      /\ \A j \in bin : precedences(s[j].type) = precedences(s[lo].type) => j <= i
         IN InfixExpression(s[1].line, s[1].col, RefTree(SubSeq(s, 1, at - 1)), s[at].lit,
                            RefTree(SubSeq(s, at + 1, Len(s))))
    ELSE IF s[1].type \in {"Bang", "Minus"}
    THEN PrefixExpression(s[1].line, s[1].col, s[1].lit, RefTree(Tail(s)))
    ELSE IF Len(s) = 1
    THEN IF s[1].type = "Ident" THEN Ident(s[1].line, s[1].col, s[1].lit)
         ELSE IntLiteral(s[1].line, s[1].col, RefIntValue(s[1].lit))
    ELSE FieldExpression(s[1].line, s[1].col, RefTree(SubSeq(s, 1, Len(s) - 2)),
                         StringLiteral(s[Len(s)].line, s[Len(s)].col, s[Len(s)].lit))

\* The input is a whole expression: it ends with an operand.
IsExpression == Body # <<>> /\ Body[Len(Body)].type \in {"Ident", "Int"}

\* C11: an expression over identifiers, literals, prefix and binary
\* operators is parsed without error into the one expression statement
\* whose tree is the tree by precedence and left-to-right grouping: a
\* tighter-binding operator is deeper in the tree, operators of equal
\* precedence group to the left.
C11_PrecedenceAndLeftAssociativity ==
    (ppc \in {"done", "failed"} /\ IsExpression) =>
        /\ ppc = "done"
        /\ parsed.err = NoError
        /\ parsed.program = Program(1, 1, <<ExpressionStatement(1, 1, RefTree(Body))>>)

\* a + a / a has been parsed to a + (a / a).
C11_Witness ==
    /\ ppc = "done"
    /\ TokenTypes(Body) = <<"Ident", "Plus", "Ident", "Slash", "Ident">>
    /\ parsed.program.stmts[1].expr.op = <<"+">>
    /\ parsed.program.stmts[1].expr.right.op = <<"/">>

\* Largest number of pairs of a hash literal of the inputs.
MaxPairs == 2

StringSymbol(text) == <<"String", text>>

\* The keys of the hash literals: the string literals "a" and "b", the empty
\* string literal, an identifier, an int literal and a string literal in
\* parentheses.
KeyForms ==
    {<<StringSymbol(<<"a">>)>>, <<StringSymbol(<<"b">>)>>, <<StringSymbol(<<>>)>>,
     <<<<"Ident", <<"a">>>>>>, <<<<"Int", <<"1", "2">>>>>>,
     <<<<"LeftParen", <<"(">>>>, StringSymbol(<<"a">>), <<"RightParen", <<")">>>>>>}

\* The symbols of the pairs prs = <<key form, value symbol>>, a comma
\* between two pairs.
RECURSIVE PairSymbols(_)
PairSymbols(prs) ==
    IF prs = <<>> THEN <<>>
    ELSE prs[1][1] \o <<<<"Colon", <<":">>>>, prs[1][2]>>
         \o (IF Len(prs) = 1 THEN <<>> ELSE <<<<"Comma", <<",">>>>>>)
         \o PairSymbols(Tail(prs))

\* { pairs } or, with a trailing comma, { pairs , }
HashSymbols(prs, trailingComma) ==
    <<<<"LeftBrace", <<"{">>>>>> \o PairSymbols(prs)
    \o (IF trailingComma THEN <<<<"Comma", <<",">>>>>> ELSE <<>>)
    \o <<<<"RightBrace", <<"}">>>>>>

HashInputs ==
    {MkTokens(HashSymbols(prs, tc)) :
        prs \in SeqsUpTo(KeyForms \X AtomSymbols, MaxPairs), tc \in BOOLEAN}

SpecParserHash == InitParserOn(HashInputs) /\ [][NextParser]_vars

\* The tokens of the pairs of the hash literal: what is between the braces,
\* split at the commas (no key and no value of the inputs holds a comma).
RECURSIVE SplitAt(_, _)
SplitAt(s, t) ==
    IF \A i \in 1..Len(s) : s[i].type # t THEN <<s>>
    ELSE LET i == CHOOSE j \in 1..Len(s) : s[j].type = t /\ \A m \in 1..(j - 1) : s[m].type # t
         IN <<SubSeq(s, 1, i - 1)>> \o SplitAt(SubSeq(s, i + 1, Len(s)), t)

Inner == SubSeq(Body, 2, Len(Body) - 1)

HashSegments == IF Inner = <<>> THEN <<>> ELSE SplitAt(Inner, "Comma")

\* The literal has a comma that is directly followed by }.
HasTrailingComma == Inner # <<>> /\ Inner[Len(Inner)].type = "Comma"

\* The tokens of the key of a pair.
KeyTokens(seg) == Head(SplitAt(seg, "Colon"))

\* The key is a string literal: one String token, or one in parentheses.
IsStringKey(key) ==
    \/ TokenTypes(key) = <<"String">>
    \/ TokenTypes(key) = <<"LeftParen", "String", "RightParen">>

KeyText(key) == IF Len(key) = 1 THEN key[1].lit ELSE key[2].lit

\* The pairs of the literal, not counting what follows a trailing comma.
HashPairs ==
    IF HasTrailingComma THEN SubSeq(HashSegments, 1, Len(HashSegments) - 1) ELSE HashSegments

HashIsBad ==
    \/ HasTrailingComma
    \/ \E i \in 1..Len(HashPairs) :
          \/ ~IsStringKey(KeyTokens(HashPairs[i]))
          \/ KeyText(KeyTokens(HashPairs[i])) = <<>>
    \/ \E i, j \in 1..Len(HashPairs) :
          /\ i # j
          /\ IsStringKey(KeyTokens(HashPairs[i])) /\ IsStringKey(KeyTokens(HashPairs[j]))
          /\ KeyText(KeyTokens(HashPairs[i])) = KeyText(KeyTokens(HashPairs[j]))

CallSymbols ==
    {<<"Ident", <<"a">>>>, <<"LeftParen", <<"(">>>>, <<"RightParen", <<")">>>>,
     <<"Comma", <<",">>>>}

CallInputs == {MkTokens(s) : s \in SeqsUpTo(CallSymbols, MaxTokens)}

SpecParserCalls == InitParserOn(CallInputs) /\ [][NextParser]_vars

\* C13: an input in which a comma is directly followed by ), as in the call
\* f(a,), is rejected with a parse error.
C13_CallTrailingCommaIsRejected ==
    (/\ ppc \in {"done", "failed"}
     /\ \E i \in 1..(Len(Body) - 1) : Body[i].type = "Comma" /\ Body[i + 1].type = "RightParen")
        => (ppc = "failed" /\ parsed.err # NoError)

(***************************************************************************)
(* evaluator/eval.go, program.go, expression.go, literal_expression.go,    *)
(* convert.go; ranger/ranger.go.  The eval functions are operators from    *)
(* the evaluator before the call to ER(evaluator after the call, value,    *)
(* error).  ev.scope is the last scope of the chain e.scopes, whose        *)
(* Parent is the scope before it.  The fields trace and active of the      *)
(* evaluator are history: what has been executed, and the for expressions  *)
(* that are iterating.                                                     *)
(***************************************************************************)

Int64Value(i) == [k |-> "int64", i |-> i]

BoolValue(b) == [k |-> "bool", b |-> b]

\* A *intRanger: id is its place in e.rangers.
RangerValue(id) == [k |-> "ranger", id |-> id]

\* ranger.Status
StatusValue(index, lastIndex) ==
    [k |-> "Status", Index |-> index, First |-> index = 0, Last |-> index = lastIndex,
     Even |-> index % 2 = 0, Odd |-> index % 2 # 0, HasMore |-> index < lastIndex]

\* if maxExclusive <= minInclusive { panic(...) } of NewInt
NewIntPanics(minInclusive, maxExclusive) == maxExclusive <= minInclusive

\* ranger.NewInt(minInclusive, maxExclusive) when it does not panic
NewInt(minInclusive, maxExclusive) ==
    [minInclusive |-> minInclusive, maxExclusive |-> maxExclusive,
     current |-> minInclusive - 1]

\* intRanger.Next: <<the ranger after the call, ok>>
RangerNext(rg) ==
    IF rg.current + 1 < rg.maxExclusive THEN <<[rg EXCEPT !.current = rg.current + 1], TRUE>>
    ELSE <<rg, FALSE>>

\* intRanger.Value: a Go int.
RangerValueOf(rg) == IntValue(rg.current)

\* intRanger.Status
RangerStatus(rg) ==
    StatusValue(rg.current - rg.minInclusive, rg.maxExclusive - rg.minInclusive - 1)

newEvalErrorf(line, col, msg) == [msg |-> msg, line |-> line, col |-> col]

ER(e, o, err) == [ev |-> e, o |-> o, err |-> err]

\* normalize(v): the Go integer types become int64.
normalize(v) == IF v.k = "int" THEN Int64Value(v.i) ELSE v

\* toBool(v): <<value, ok>>
toBool(v) == IF v.k = "bool" THEN <<v.b, TRUE>> ELSE <<FALSE, FALSE>>

\* toSingleOrSliceObject(objs)
toSingleOrSliceObject(objs) ==
    IF Len(objs) > 1 THEN SliceValue(objs)
    ELSE IF Len(objs) = 1 THEN objs[1]
    ELSE NilValue

\* The current scope ev.scope.
CurrentScope(e) == Len(e.scopes)

\* ev.scope = &scope.Scope{Parent: ev.scope}
PushScope(e) ==
    [e EXCEPT !.scopes = Append(@, EmptyMap), !.locked = Append(@, FALSE)]

\* Mutant of RestoreScope: ev.scope stays the scope of the block.
RestoreScope_Keep(e, old) == e

\* ev.scope = oldScope, the current scope of the evaluator old.
RestoreScope(e, old) ==
    [e EXCEPT !.scopes = SubSeq(@, 1, Len(old.scopes)),
              !.locked = SubSeq(@, 1, Len(old.scopes))]

Log(e, event) == [e EXCEPT !.trace = Append(@, event)]

\* The position that tells the statements of a program apart (a let
\* statement has the position of its let token in its Ident only).
StmtPos(st) == IF st.k = "LetStatement" THEN st.ident.col ELSE st.col

\* st.Line(), st.Col()
StmtLine(st) == IF st.k = "LetStatement" THEN 0 ELSE st.line

StmtCol(st) == IF st.k = "LetStatement" THEN 0 ELSE st.col

evalNilLiteral == NilValue

evalIntLiteral(i) == Int64Value(i.value)

evalBoolLiteral(b) == BoolValue(b.value)

evalStringLiteral(s) == StringValue(s.value)

\* Mutant of evalLiteral: the literal stringer wraps the text in a
\* SafeString.
evalLiteral_Safe(e, lit) == ER(e, SafeStringValue(lit.text), NoError)

\* ev.evalLiteral with the default literal stringer, defaultLiteral.
evalLiteral(e, lit) == ER(e, StringValue(lit.text), NoError)

evalIdentExpression(e, i) ==
    Let(Value(e.scopes, CurrentScope(e), i.name), LAMBDA v :
    IF v[2] THEN ER(e, v[1], NoError)
    ELSE ER(e, NilValue, newEvalErrorf(i.line, i.col, "identifier not found in scope")))

evalBreakStatement(e) == [e EXCEPT !.breakRequested = TRUE]

evalContinueStatement(e) == [e EXCEPT !.continueRequested = TRUE]

(***************************************************************************)
(* The infix and prefix operators, calls, fields and hashes of the         *)
(* evaluator.  A function of the host is the value FuncValue(id), a struct *)
(* of the host StructValue(fields, methods), a map MapValue(m), a pointer  *)
(* of the host PtrValue(type, id) with id = 0 for the nil pointer.         *)
(***************************************************************************)

FuncValue(id) == [k |-> "func", id |-> id]

MapValue(m) == [k |-> "map", m |-> m]

StructValue(fields, methods) == [k |-> "struct", fields |-> fields, methods |-> methods]

PtrValue(type, id) == [k |-> "ptr", type |-> type, id |-> id]

\* An error of the host, which is no *evalError: it has no line and column.
HostError(msg) == [msg |-> msg, host |-> TRUE]

\* IsEvaluationError(e): errors.As(e, &ee) for an *evalError ee.
IsEvaluationError(err) == "line" \in DOMAIN err

\* toInt64(v): <<value, ok>>
toInt64(v) == IF v.k \in {"int", "int64"} THEN <<v.i, TRUE>> ELSE <<0, FALSE>>

\* toString(v): <<value, ok>>
toString(v) == IF v.k = "string" THEN <<v.s, TRUE>> ELSE <<<<>>, FALSE>>

\* The magnitude of the integer i.
Magnitude(i) == IF i < 0 THEN 0 - i ELSE i

\* lv / rv of Go for rv # 0: the quotient truncated towards zero.
Quo(lv, rv) ==
    IF (lv < 0) = (rv < 0) THEN Magnitude(lv) \div Magnitude(rv)
    ELSE 0 - (Magnitude(lv) \div Magnitude(rv))

\* lv % rv of Go for rv # 0: the remainder has the sign of lv.
Rem(lv, rv) == lv - rv * Quo(lv, rv)

\* The results <<value, error>> of the operator functions.
Result(o, err) == <<o, err>>

evalBoolInfixExpression(lv, rv, op, line, col) ==
    CASE op = <<"=", "=">> -> Result(BoolValue(lv = rv), NoError)
      [] op = <<"!", "=">> -> Result(BoolValue(lv # rv), NoError)
      [] op = <<"|", "|">> -> Result(BoolValue(lv \/ rv), NoError)
      [] op = <<"&", "&">> -> Result(BoolValue(lv /\ rv), NoError)
      [] OTHER -> Result(NilValue,
                         newEvalErrorf(line, col, "unexpected operator in bool infix expression"))

\* The operands of the model are small: no operation leaves the int64 range.
evalIntInfixExpression(lv, rv, op, line, col) ==
    CASE op = <<"=", "=">> -> Result(BoolValue(lv = rv), NoError)
      [] op = <<"!", "=">> -> Result(BoolValue(lv # rv), NoError)
      [] op = <<"<">> -> Result(BoolValue(lv < rv), NoError)
      [] op = <<"<", "=">> -> Result(BoolValue(lv <= rv), NoError)
      [] op = <<">">> -> Result(BoolValue(lv > rv), NoError)
      [] op = <<">", "=">> -> Result(BoolValue(lv >= rv), NoError)
      [] op = <<"+">> -> Result(Int64Value(lv + rv), NoError)
      [] op = <<"-">> -> Result(Int64Value(lv - rv), NoError)
      [] op = <<"*">> -> Result(Int64Value(lv * rv), NoError)
      [] op = <<"/">> ->
            IF rv = 0 THEN Result(NilValue, newEvalErrorf(line, col, "division by zero"))
            ELSE Result(Int64Value(Quo(lv, rv)), NoError)
      [] op = <<"%">> ->
            IF rv = 0 THEN Result(NilValue, newEvalErrorf(line, col, "division by zero"))
            ELSE Result(Int64Value(Rem(lv, rv)), NoError)
      [] OTHER -> Result(NilValue,
                         newEvalErrorf(line, col, "unexpected operator in int infix expression"))

evalStringInfixExpression(lv, rv, op, line, col) ==
    CASE op = <<"=", "=">> -> Result(BoolValue(lv = rv), NoError)
      [] op = <<"!", "=">> -> Result(BoolValue(lv # rv), NoError)
      [] op = <<"+">> ->
            IF lv = <<>> THEN Result(StringValue(rv), NoError)
            ELSE IF rv = <<>> THEN Result(StringValue(lv), NoError)
            ELSE Result(StringValue(lv \o rv), NoError)
      [] OTHER -> Result(NilValue,
                         newEvalErrorf(line, col, "unexpected operator in string infix expression"))

evalMinusPrefix(right, line, col) ==
    IF toInt64(right)[2] THEN Result(Int64Value(0 - toInt64(right)[1]), NoError)
    ELSE Result(NilValue, newEvalErrorf(line, col,
                              "incompatible expression type for '-' prefix expression"))

evalBangPrefix(right, line, col) ==
    IF toBool(right)[2] THEN Result(BoolValue(~toBool(right)[1]), NoError)
    ELSE Result(NilValue, newEvalErrorf(line, col,
                              "incompatible expression type for '!' prefix expression"))

\* The functions of the host that the scope handed to Eval binds:
\*   t: func() bool { return true }      f: func() bool { return false }
\*   e: func() (interface{}, error) { return nil, errors.New("failed") }
\*   g: func(c *Ctx) bool { return c != nil }
\*   m: func(i int64, c *Ctx) int64 { return i }
\* fValueType.In(i) is In(id)[i + 1].
In(id) ==
    CASE id = "g" -> <<"Ctx">>
      [] id = "m" -> <<"int64", "Ctx">>
      [] id = "renderTemplateFunc" -> <<"string", "map", "Context">>
      [] OTHER -> <<>>

\* fValueType.NumIn()
NumIn(id) == Len(In(id))

\* fValue.Call(params): the values rs that the function returns; an error
\* of the host is the value of its last place.
Call(id, params) ==
    CASE id = "t" -> <<BoolValue(TRUE)>>
      [] id = "f" -> <<BoolValue(FALSE)>>
      [] id = "e" -> <<NilValue, HostError("failed")>>
      [] id = "g" -> <<BoolValue(params[1].id # 0)>>
      [] id = "m" -> <<params[1]>>

\* The type %T of a value.
TypeOf(v) == IF v.k = "ptr" THEN v.type ELSE v.k

\* pValue.Type().ConvertibleTo(pType) for the parameter types bool, int64
\* and *Ctx of the functions of the host.
ConvertibleTo(type, pType) == type = pType \/ (type = "int" /\ pType = "int64")

\* pValue.Convert(pType)
Convert(v, pType) == IF v.k = "int" /\ pType = "int64" THEN Int64Value(v.i) ELSE v

\* reflect.New(pType).Elem(): the zero value of the type.
Zero(pType) ==
    CASE pType = "bool" -> BoolValue(FALSE)
      [] pType = "int64" -> Int64Value(0)
      [] pType = "Ctx" -> PtrValue("Ctx", 0)
      [] pType = "string" -> StringValue(<<>>)
      [] pType = "map" -> MapValue(EmptyMap)
      [] pType = "Context" -> NilValue

\* The context.Context handed to Renderer.Render.
ContextValue == [k |-> "Context"]

\* defaultResolve, resolveScope ("scope"), resolveContext ("context"), and
\* the argument resolvers that the host registers:
\* "A" and "B" return the pointers 1 and 2 for the type *Ctx, "none" returns
\* nil for every type, "failing" returns an error.  <<value, error>>
Resolve(ra, pType) ==
    CASE ra \in {"A", "B"} /\ pType = "Ctx" -> <<PtrValue("Ctx", IF ra = "A" THEN 1 ELSE 2), NoError>>
      [] ra = "context" /\ pType = "Context" -> <<ContextValue, NoError>>
      [] ra = "scope" /\ pType = "Scope" -> <<PtrValue("Scope", 1), NoError>>
      [] ra = "failing" -> <<NilValue, HostError("resolver failed")>>
      [] OTHER -> <<NilValue, NoError>>

\* The loop over ev.argumentResolvers for one parameter from resolver j on:
\* the first resolver that returns a value or an error ends it.
RECURSIVE resolveArgument(_, _, _)
resolveArgument(resolvers, pType, j) ==
    IF j > Len(resolvers) THEN <<NilValue, NoError>>
    ELSE IF Resolve(resolvers[j], pType) # <<NilValue, NoError>> THEN Resolve(resolvers[j], pType)
    ELSE resolveArgument(resolvers, pType, j + 1)

RECURSIVE resolveParams(_, _, _, _)

\* The loop of evalCallExpression over the parameters i that the call does
\* not supply: <<params, error>>
resolveParams(resolvers, id, i, params) ==
    IF i > NumIn(id) THEN <<params, NoError>>
    ELSE Let(resolveArgument(resolvers, In(id)[i], 1), LAMBDA v :
         IF v[2] # NoError THEN <<params, v[2]>>
         ELSE IF v[1] # NilValue
         THEN resolveParams(resolvers, id, i + 1, Append(params, Convert(v[1], In(id)[i])))
         ELSE resolveParams(resolvers, id, i + 1, Append(params, Zero(In(id)[i]))))

\* The keys of the map vals in the order in which a range statement visits
\* them: Go leaves the order open, and e.mapOrder holds the order of this
\* evaluation.
RangeOrder(e, vals) == SelectSeq(e.mapOrder, LAMBDA key : key \in DOMAIN vals)

RECURSIVE eval(_, _), evalProgram(_, _), evalStatements(_, _),
          evalStatementsCaptureAll(_, _), evalStatementsLoop(_, _, _, _),
          evalBlockCaptureAll(_, _), evalStatement(_, _), evalExpressionStatement(_, _),
          evalLetStatement(_, _), evalExpression(_, _), evalIfExpression(_, _),
          evalIfLoop(_, _, _), evalForExpression(_, _), evalForLoop(_, _, _, _, _, _),
          evalCaptureExpression(_, _), evalPrefixExpression(_, _),
          evalInfixExpression(_, _), evalCallParams(_, _, _, _, _),
          evalCallExpression(_, _), evalFieldExpression(_, _),
          evalHashLoop(_, _, _, _, _, _), evalHashExpression(_, _), CallFunc(_, _)

\* What one iteration of the loop of evalStatementsCaptureAll leaves: the
\* evaluator, os, the error, and whether the loop is left.
Iteration(e, os, err, stop) == [ev |-> e, os |-> os, err |-> err, stop |-> stop]

\* Mutant of evalStatementsIteration: a requested break or continue leaves
\* the statement loop whatever the loop level is.
evalStatementsIteration_NoLevelCheck(e, st, i, os) ==
    Let(evalStatement(e, st[i]), LAMBDA r :
    IF r.err # NoError THEN Iteration(r.ev, <<>>, r.err, TRUE)
    ELSE IF r.ev.breakRequested \/ r.ev.continueRequested
    THEN Iteration(r.ev, os, NoError, TRUE)
    ELSE Iteration(r.ev, [os EXCEPT ![i] = r.o], NoError, FALSE))

\* The body of the loop of evalStatementsCaptureAll for the statement st[i].
evalStatementsIteration(e, st, i, os) ==
    Let(evalStatement(e, st[i]), LAMBDA r :
    IF r.err # NoError THEN Iteration(r.ev, <<>>, r.err, TRUE)
    ELSE IF r.ev.breakRequested
    THEN IF r.ev.loopLevel <= 0
         THEN Iteration(r.ev, <<>>,
                        newEvalErrorf(StmtLine(st[i]), StmtCol(st[i]), "break outside of loop"),
                        TRUE)
         ELSE Iteration(r.ev, os, NoError, TRUE)
    ELSE IF r.ev.continueRequested
    THEN IF r.ev.loopLevel <= 0
         THEN Iteration(r.ev, <<>>,
                        newEvalErrorf(StmtLine(st[i]), StmtCol(st[i]), "continue outside of loop"),
                        TRUE)
         ELSE Iteration(r.ev, os, NoError, TRUE)
    ELSE Iteration(r.ev, [os EXCEPT ![i] = r.o], NoError, FALSE))

\* The loop of evalStatementsCaptureAll from the statement st[i] on; ran is
\* the number of statements evalStatement has been called for, stopped
\* whether the last of them left the loop by a break or continue (history).
evalStatementsLoop(e, st, i, os) ==
    IF i > Len(st) THEN [ev |-> e, o |-> os, err |-> NoError, ran |-> Len(st), stopped |-> FALSE]
    ELSE Let(evalStatementsIteration(e, st, i, os), LAMBDA it :
         IF it.stop
         THEN [ev |-> it.ev, o |-> it.os, err |-> it.err, ran |-> i, stopped |-> TRUE]
         ELSE evalStatementsLoop(it.ev, st, i + 1, it.os))

\* os := make([]interface{}, len(st))
MakeOs(st) == [i \in 1..Len(st) |-> NilValue]

\* What evalStatementsCaptureAll has done when it returns os (history).
Captured(st, r) ==
    [t |-> "captured", os |-> r.o, kinds |-> [i \in 1..Len(st) |-> st[i].k],
     ran |-> r.ran, stopped |-> r.stopped, scopes |-> r.ev.scopes]

\* ev.evalStatementsCaptureAll(st): the value is the list os.
evalStatementsCaptureAll(e, st) ==
    Let(evalStatementsLoop(e, st, 1, MakeOs(st)), LAMBDA r :
    IF r.err # NoError THEN ER(r.ev, <<>>, r.err)
    ELSE ER(Log(r.ev, Captured(st, r)), r.o, NoError))

\* ev.evalStatements(st)
evalStatements(e, st) ==
    Let(evalStatementsCaptureAll(e, st), LAMBDA r :
    IF r.err # NoError THEN ER(r.ev, NilValue, r.err)
    ELSE IF Len(r.o) = 0 THEN ER(r.ev, NilValue, NoError)
    ELSE ER(r.ev, r.o[Len(r.o)], NoError))

evalProgram(e, pr) == evalStatements(e, pr.stmts)

\* ev.evalBlockCaptureAll(b): the deferred function restores ev.scope.
evalBlockCaptureAll(e, b) ==
    Let(evalStatementsCaptureAll(PushScope(e), b.stmts), LAMBDA r :
    ER(RestoreScope(r.ev, e), r.o, r.err))

\* What evalLetStatement has done on the evaluator e to give after (history).
LetEvent(e, st, v, after) ==
    [t |-> "let", name |-> st.ident.name, v |-> v, scope |-> CurrentScope(e),
     before |-> e.scopes, after |-> after]

\* Mutant of evalLetStatement: the value is stored in the current scope,
\* whatever the enclosing scopes hold.
evalLetStatement_Shadow(e, st) ==
    Let(eval(e, st.expr), LAMBDA r :
    Let([r.ev.scopes EXCEPT ![CurrentScope(r.ev)] = MapPut(@, st.ident.name, r.o)], LAMBDA after :
    IF r.err # NoError THEN ER(r.ev, NilValue, r.err)
    ELSE ER(Log([r.ev EXCEPT !.scopes = after], LetEvent(r.ev, st, r.o, after)),
            NilValue, NoError)))

\* ev.evalLetStatement(l)
evalLetStatement(e, st) ==
    Let(eval(e, st.expr), LAMBDA r :
    Let(SetStore(r.ev.scopes, r.ev.locked, CurrentScope(r.ev), st.ident.name, r.o), LAMBDA after :
    IF r.err # NoError THEN ER(r.ev, NilValue, r.err)
    ELSE ER(Log([r.ev EXCEPT !.scopes = after], LetEvent(r.ev, st, r.o, after)),
            NilValue, NoError)))

evalExpressionStatement(e, st) == eval(e, st.expr)

\* ev.evalStatement(st)
evalStatement(e0, st) ==
    Let(Log(e0, [t |-> "stmt", k |-> st.k, at |-> StmtPos(st),
                      loopLevel |-> e0.loopLevel, active |-> e0.active,
                      scopes |-> e0.scopes]), LAMBDA e :
    CASE st.k = "ExpressionStatement" -> evalExpressionStatement(e, st)
      [] st.k = "LetStatement" -> evalLetStatement(e, st)
      [] st.k = "BreakStatement" -> ER(evalBreakStatement(e), NilValue, NoError)
      [] st.k = "ContinueStatement" -> ER(evalContinueStatement(e), NilValue, NoError))

\* ev.evalExpression(e)
evalExpression(e, x) ==
    CASE x.k = "NilLiteral" -> ER(e, evalNilLiteral, NoError)
      [] x.k = "Literal" -> evalLiteral(e, x)
      [] x.k = "IntLiteral" -> ER(e, evalIntLiteral(x), NoError)
      [] x.k = "BoolLiteral" -> ER(e, evalBoolLiteral(x), NoError)
      [] x.k = "StringLiteral" -> ER(e, evalStringLiteral(x), NoError)
      [] x.k = "Ident" -> evalIdentExpression(e, x)
      [] x.k = "IfExpression" -> evalIfExpression(e, x)
      [] x.k = "CaptureExpression" -> evalCaptureExpression(e, x)
      [] x.k = "PrefixExpression" -> evalPrefixExpression(e, x)
      [] x.k = "InfixExpression" -> evalInfixExpression(e, x)
      [] x.k = "FieldExpression" -> evalFieldExpression(e, x)
      [] x.k = "CallExpression" -> evalCallExpression(e, x)
      [] x.k = "ForExpression" -> evalForExpression(e, x)
      [] x.k = "HashExpression" -> evalHashExpression(e, x)

\* ev.eval(n)
eval(e, n) ==
    Let(CASE n.k = "Program" -> evalProgram(e, n)
               [] n.k \in {"ExpressionStatement", "LetStatement", "BreakStatement",
                           "ContinueStatement"} -> evalStatement(e, n)
               [] OTHER -> evalExpression(e, n), LAMBDA r :
    ER(r.ev, normalize(r.o), r.err))

\* Mutant of evalIfLoop: the loop goes on after the block of a selected
\* conditional.
evalIfLoop_NoBreak(e, i, j) ==
    IF j > Len(i.conds) THEN ER(Log(e, [t |-> "ifnone", if |-> i.col]), NilValue, NoError)
    ELSE
    LET c == i.conds[j] IN
    Let(IF c.cond # NoExpr THEN eval(e, c.cond) ELSE ER(e, BoolValue(TRUE), NoError), LAMBDA v :
    IF v.err # NoError THEN ER(v.ev, NilValue, v.err)
    ELSE IF ~toBool(v.o)[2]
    THEN ER(v.ev, NilValue,
            newEvalErrorf(c.cond.line, c.cond.col,
                          "condition expression type in if expression is not bool"))
    ELSE
    Let(Log(v.ev, [t |-> "cond", if |-> i.col, j |-> j, v |-> toBool(v.o)[1]]), LAMBDA e1 :
    IF toBool(v.o)[1]
    THEN Let(evalBlockCaptureAll(e1, c.block), LAMBDA b :
         IF b.err # NoError THEN ER(b.ev, NilValue, b.err)
         ELSE evalIfLoop(Log(b.ev, [t |-> "if", if |-> i.col, taken |-> j,
                                     scopes |-> b.ev.scopes, o |-> toSingleOrSliceObject(b.o)]),
                         i, j + 1))
    ELSE evalIfLoop(e1, i, j + 1)))

\* The loop of evalIfExpression from the conditional i.conds[j] on.  The
\* event "cond" records a condition that has been evaluated to a bool (to
\* true when the conditional has no condition), the event "if" the end of
\* the block of the selected conditional, the event "ifnone" the end of
\* the loop.
evalIfLoop(e, i, j) ==
    IF j > Len(i.conds) THEN ER(Log(e, [t |-> "ifnone", if |-> i.col]), NilValue, NoError)
    ELSE
    LET c == i.conds[j] IN
    Let(IF c.cond # NoExpr THEN eval(e, c.cond) ELSE ER(e, BoolValue(TRUE), NoError), LAMBDA v :
    IF v.err # NoError THEN ER(v.ev, NilValue, v.err)
    ELSE IF ~toBool(v.o)[2]
    THEN ER(v.ev, NilValue,
            newEvalErrorf(c.cond.line, c.cond.col,
                          "condition expression type in if expression is not bool"))
    ELSE
    Let(Log(v.ev, [t |-> "cond", if |-> i.col, j |-> j, v |-> toBool(v.o)[1]]), LAMBDA e1 :
    IF toBool(v.o)[1]
    THEN Let(evalBlockCaptureAll(e1, c.block), LAMBDA b :
         IF b.err # NoError THEN ER(b.ev, NilValue, b.err)
         ELSE ER(Log(b.ev, [t |-> "if", if |-> i.col, taken |-> j, scopes |-> b.ev.scopes,
                       o |-> toSingleOrSliceObject(b.o)]),
                 toSingleOrSliceObject(b.o), NoError))
    ELSE evalIfLoop(e1, i, j + 1)))

evalIfExpression(e, i) == evalIfLoop(e, i, 1)

evalCaptureExpression(e, c) ==
    Let(evalBlockCaptureAll(e, c.block), LAMBDA b :
    IF b.err # NoError THEN ER(b.ev, NilValue, b.err)
    ELSE ER(b.ev, toSingleOrSliceObject(b.o), NoError))

\* ev.evalPrefixExpression(p)
evalPrefixExpression(e, px) ==
    Let(eval(e, px.expr), LAMBDA v :
    IF v.err # NoError THEN ER(v.ev, NilValue, v.err)
    ELSE Let(IF px.op = <<"-">> THEN evalMinusPrefix(v.o, px.line, px.col)
             ELSE evalBangPrefix(v.o, px.line, px.col), LAMBDA r :
         ER(v.ev, r[1], r[2])))

\* History: the left operand of the infix expression i has the value v.
LeftEvent(e, i, v) ==
    Log(e, [t |-> "left", at |-> i.col, op |-> i.op, v |-> v, left |-> i.left,
            right |-> i.right])

\* History: the infix expression i returns o without evaluating i.right.
ShortEvent(e, i, o) == Log(e, [t |-> "short", at |-> i.col, op |-> i.op, o |-> o])

\* Mutant of evalInfixExpression: the right operand of || is evaluated
\* whatever the left operand is.
evalInfixExpression_EagerOr(e, i) ==
    Let(eval(e, i.left), LAMBDA left :
    IF left.err # NoError THEN ER(left.ev, NilValue, left.err)
    ELSE
    Let(LeftEvent(left.ev, i, left.o), LAMBDA e1 :
    IF left.o.k = "bool" /\ i.op = <<"&", "&">> /\ ~toBool(left.o)[1]
    THEN ER(ShortEvent(e1, i, BoolValue(FALSE)), BoolValue(FALSE), NoError)
    ELSE
    Let(eval(e1, i.right), LAMBDA right :
    IF right.err # NoError THEN ER(right.ev, NilValue, right.err)
    ELSE
    Let(CASE left.o.k = "string" /\ right.o.k = "string" ->
                 evalStringInfixExpression(toString(left.o)[1], toString(right.o)[1],
                                           i.op, i.line, i.col)
          [] left.o.k = "int64" /\ right.o.k = "int64" ->
                 evalIntInfixExpression(toInt64(left.o)[1], toInt64(right.o)[1],
                                        i.op, i.line, i.col)
          [] left.o.k = "bool" /\ right.o.k = "bool" ->
                 evalBoolInfixExpression(toBool(left.o)[1], toBool(right.o)[1],
                                         i.op, i.line, i.col)
          [] OTHER -> Result(NilValue, newEvalErrorf(i.line, i.col,
                                 "cannot handle expression types in infix expression")),
        LAMBDA r :
    ER(Log(right.ev, [t |-> "infix", x |-> i, left |-> left.o, right |-> right.o,
                      o |-> r[1], err |-> r[2]]), r[1], r[2])))))

\* ev.evalInfixExpression(i).  The event "left" records that the left
\* operand has been evaluated, the event "short" a return before the right
\* operand is evaluated, the event "infix" an operator applied to both
\* operands.
evalInfixExpression(e, i) ==
    Let(eval(e, i.left), LAMBDA left :
    IF left.err # NoError THEN ER(left.ev, NilValue, left.err)
    ELSE
    Let(LeftEvent(left.ev, i, left.o), LAMBDA e1 :
    IF left.o.k = "bool" /\ i.op = <<"&", "&">> /\ ~toBool(left.o)[1]
    THEN ER(ShortEvent(e1, i, BoolValue(FALSE)), BoolValue(FALSE), NoError)
    ELSE IF left.o.k = "bool" /\ i.op = <<"|", "|">> /\ toBool(left.o)[1]
    THEN ER(ShortEvent(e1, i, BoolValue(TRUE)), BoolValue(TRUE), NoError)
    ELSE
    Let(eval(e1, i.right), LAMBDA right :
    IF right.err # NoError THEN ER(right.ev, NilValue, right.err)
    ELSE
    Let(CASE left.o.k = "string" /\ right.o.k = "string" ->
                 evalStringInfixExpression(toString(left.o)[1], toString(right.o)[1],
                                           i.op, i.line, i.col)
          [] left.o.k = "int64" /\ right.o.k = "int64" ->
                 evalIntInfixExpression(toInt64(left.o)[1], toInt64(right.o)[1],
                                        i.op, i.line, i.col)
          [] left.o.k = "bool" /\ right.o.k = "bool" ->
                 evalBoolInfixExpression(toBool(left.o)[1], toBool(right.o)[1],
                                         i.op, i.line, i.col)
          [] OTHER -> Result(NilValue, newEvalErrorf(i.line, i.col,
                                 "cannot handle expression types in infix expression")),
        LAMBDA r :
    ER(Log(right.ev, [t |-> "infix", x |-> i, left |-> left.o, right |-> right.o,
                      o |-> r[1], err |-> r[2]]), r[1], r[2])))))

\* The first loop of evalCallExpression, over the parameters c.params from
\* the i-th on, for the function id: [ev, params, err]
evalCallParams(e, c, id, i, params) ==
    IF i > Len(c.params) THEN [ev |-> e, params |-> params, err |-> NoError]
    ELSE
    Let(eval(e, c.params[i]), LAMBDA po :
    IF po.err # NoError THEN [ev |-> po.ev, params |-> params, err |-> po.err]
    ELSE IF po.o # NilValue
    THEN IF ~ConvertibleTo(TypeOf(po.o), In(id)[i])
         THEN [ev |-> po.ev, params |-> params,
               err |-> newEvalErrorf(c.params[i].line, c.params[i].col,
                                     "cannot convert argument to required type")]
         ELSE evalCallParams(po.ev, c, id, i + 1, Append(params, Convert(po.o, In(id)[i])))
    ELSE evalCallParams(po.ev, c, id, i + 1, Append(params, Zero(In(id)[i]))))

\* ev.evalCallExpression(c).  The event "call" records fValue.Call(params).
evalCallExpression(e, c) ==
    Let(eval(e, c.callee), LAMBDA f :
    IF f.err # NoError THEN ER(f.ev, NilValue, f.err)
    ELSE IF f.o.k # "func"
    THEN ER(f.ev, NilValue, newEvalErrorf(c.callee.line, c.callee.col,
                                "callee expression in call expression is not a function"))
    ELSE IF Len(c.params) > NumIn(f.o.id)
    THEN ER(f.ev, NilValue, newEvalErrorf(c.line, c.col, "too many arguments for function call"))
    ELSE
    Let(evalCallParams(f.ev, c, f.o.id, 1, <<>>), LAMBDA ps :
    IF ps.err # NoError THEN ER(ps.ev, NilValue, ps.err)
    ELSE
    Let(resolveParams(ps.ev.argumentResolvers, f.o.id, Len(c.params) + 1, ps.params), LAMBDA rp :
    IF rp[2] # NoError THEN ER(ps.ev, NilValue, rp[2])
    ELSE IF Len(rp[1]) # NumIn(f.o.id)
    THEN ER(ps.ev, NilValue,
            newEvalErrorf(c.line, c.col, "not enough arguments for function call"))
    ELSE
    Let(CallFunc(f.o, rp[1]), LAMBDA called :
    Let(called.rs, LAMBDA rs :
    Let(Log(ps.ev, [t |-> "call", f |-> f.o.id, at |-> c.col, explicit |-> Len(c.params),
                    params |-> rp[1], rs |-> rs, sub |-> called.sub,
                    scopes |-> ps.ev.scopes]), LAMBDA e1 :
    IF Len(rs) > 0 /\ "msg" \in DOMAIN rs[Len(rs)] THEN ER(e1, NilValue, rs[Len(rs)])
    ELSE IF Len(rs) > 0 THEN ER(e1, rs[1], NoError)
    ELSE ER(e1, NilValue, NoError)))))))

\* evalFieldExpressionHash(hash, name, line, col)
evalFieldExpressionHash(hash, name, line, col) ==
    IF name \in DOMAIN hash THEN Result(hash[name], NoError)
    ELSE Result(NilValue, newEvalErrorf(line, col, "key not found in map"))

\* tryEvalFieldExpressionNativeDirectField and ...PtrField: the value of the
\* field, the nil interface when the struct has no such field.
tryEvalFieldExpressionNativeField(s, name) ==
    IF s.k = "struct" /\ name \in DOMAIN s.fields THEN s.fields[name] ELSE NilValue

\* tryEvalFieldExpressionNativeDirectFunc and ...PtrFunc
tryEvalFieldExpressionNativeFunc(s, name) ==
    IF s.k = "struct" /\ name \in DOMAIN s.methods THEN s.methods[name] ELSE NilValue

\* evalFieldExpressionNative(i, name, line, col), which does the same for a
\* struct and for a pointer to one: if o = tryField(...); o == nil
\* { o = tryFunc(...) }; if o == nil { err = ... }
evalFieldExpressionNative(s, name, line, col) ==
    IF tryEvalFieldExpressionNativeField(s, name) # NilValue
    THEN Result(tryEvalFieldExpressionNativeField(s, name), NoError)
    ELSE IF tryEvalFieldExpressionNativeFunc(s, name) # NilValue
    THEN Result(tryEvalFieldExpressionNativeFunc(s, name), NoError)
    ELSE Result(NilValue, newEvalErrorf(line, col, "field or function not found in object"))

\* ev.evalFieldExpression(f).  The event "field" records a field expression
\* on an object of the host.
evalFieldExpression(e, f) ==
    Let(eval(e, f.index), LAMBDA index :
    IF index.err # NoError THEN ER(index.ev, NilValue, index.err)
    ELSE IF ~toString(index.o)[2]
    THEN ER(index.ev, NilValue,
            newEvalErrorf(f.index.line, f.index.col,
                          "type of index expression in field expression is not string"))
    ELSE
    Let(eval(index.ev, f.callee), LAMBDA callee :
    IF callee.err # NoError THEN ER(callee.ev, NilValue, callee.err)
    ELSE IF callee.o = NilValue \/ (callee.o.k = "ptr" /\ callee.o.id = 0)
    THEN ER(callee.ev, NilValue,
            newEvalErrorf(f.line, f.col, "cannot get field or function from nil object"))
    ELSE IF callee.o.k = "map"
    THEN Let(evalFieldExpressionHash(callee.o.m, toString(index.o)[1], f.line, f.col), LAMBDA r :
         ER(callee.ev, r[1], r[2]))
    ELSE Let(evalFieldExpressionNative(callee.o, toString(index.o)[1], f.line, f.col), LAMBDA r :
         ER(Log(callee.ev, [t |-> "field", at |-> f.col, object |-> callee.o,
                            name |-> toString(index.o)[1], o |-> r[1], err |-> r[2]]),
            r[1], r[2]))))

\* The loop of evalHashExpression over the keys of h.vals in the order keys,
\* from the i-th on; order holds the columns of the value expressions that
\* have been evaluated (history).
evalHashLoop(e, h, keys, i, vs, order) ==
    IF i > Len(keys) THEN [ev |-> e, values |-> vs, err |-> NoError, order |-> order]
    ELSE IF keys[i] \in DOMAIN vs
    THEN [ev |-> e, values |-> vs, order |-> order,
          err |-> newEvalErrorf(h.line, h.col, "duplicate key in hash expression")]
    ELSE
    Let(eval(e, h.vals[keys[i]]), LAMBDA v :
    IF v.err # NoError
    THEN [ev |-> v.ev, values |-> vs, err |-> v.err,
          order |-> Append(order, h.vals[keys[i]].col)]
    ELSE evalHashLoop(v.ev, h, keys, i + 1, MapPut(vs, keys[i], v.o),
                      Append(order, h.vals[keys[i]].col)))

\* ev.evalHashExpression(h).  The event "hash" records the end of the loop:
\* the columns of the value expressions that it has evaluated, in this
\* order, and the columns of all value expressions of h.
evalHashExpression(e, h) ==
    Let(evalHashLoop(e, h, RangeOrder(e, h.vals), 1, EmptyMap, <<>>), LAMBDA r :
    Let(Log(r.ev, [t |-> "hash", at |-> h.col, order |-> r.order, err |-> r.err,
                   cols |-> {h.vals[key].col : key \in DOMAIN h.vals}]), LAMBDA e1 :
    IF r.err # NoError THEN ER(e1, NilValue, r.err)
    ELSE ER(e1, MapValue(r.values), NoError)))

\* os = append(os, loopOs...)
forAppend(os, loopOs) == os \o loopOs

\* Mutant of forBreakRequested: the flag stays set when the loop is left.
forBreakRequested_KeepFlag(e) == e

\* if ev.breakRequested { ev.breakRequested = false; break }
forBreakRequested(e) == [e EXCEPT !.breakRequested = FALSE]

\* The loop of evalForExpression: rg is the ranger, os the values appended
\* so far, n the number of iterations begun and captures their lists loopOs
\* (history).  The scope of the loop is the current scope.
evalForLoop(e, f, rg, os, n, captures) ==
    Let(RangerNext(e.rangers[rg]), LAMBDA next :
    LET done(ev2, o, err, cause) ==
            [ev |-> ev2, o |-> o, err |-> err, n |-> n, captures |-> captures, cause |-> cause]
    IN
    IF ~next[2] THEN done(e, os, NoError, "exhausted")
    ELSE
    Let(CurrentScope(e), LAMBDA loopScope :
    LET e1 == [e EXCEPT !.rangers[rg] = next[1]]
        e2 == [e1 EXCEPT !.scopes[loopScope] = EmptyMap] IN
    Let([e2 EXCEPT !.scopes = SetStore(e2.scopes, e2.locked, loopScope, f.ident.name,
                                       RangerValueOf(next[1]))], LAMBDA e3 :
    Let(IF f.statusIdent = NoExpr THEN e3
        ELSE [e3 EXCEPT !.scopes = SetStore(e3.scopes, e3.locked, loopScope,
                                            f.statusIdent.name, RangerStatus(next[1]))],
        LAMBDA e4 :
    Let(Log(e4, [t |-> "iter", for |-> f.col, n |-> n + 1, ident |-> f.ident.name,
                       v |-> RangerValueOf(next[1]), bound |-> e4.scopes[loopScope]]), LAMBDA e5 :
    Let(evalBlockCaptureAll(e5, f.block), LAMBDA b :
    IF b.err # NoError
    THEN [ev |-> b.ev, o |-> os, err |-> b.err, n |-> n + 1, captures |-> captures,
          cause |-> "error"]
    ELSE IF b.ev.breakRequested
    THEN [ev |-> forBreakRequested(b.ev), o |-> forAppend(os, b.o), err |-> NoError,
          n |-> n + 1, captures |-> Append(captures, b.o), cause |-> "break"]
    ELSE evalForLoop([b.ev EXCEPT !.continueRequested = FALSE], f, rg, forAppend(os, b.o),
                     n + 1, Append(captures, b.o))))))))

\* ev.evalForExpression(f); the deferred function restores ev.scope and
\* decrements ev.loopLevel.
evalForExpression(e0, f) ==
    Let(Log(e0, [t |-> "enter", for |-> f.col, ident |-> f.ident, statusIdent |-> f.statusIdent,
                      scopes |-> e0.scopes]), LAMBDA e :
    IF HasValue(e.scopes, CurrentScope(e), f.ident.name)
    THEN ER(e, NilValue,
            newEvalErrorf(f.ident.line, f.ident.col, "identifier in for statement already in use"))
    ELSE IF f.statusIdent # NoExpr /\ HasValue(e.scopes, CurrentScope(e), f.statusIdent.name)
    THEN ER(e, NilValue,
            newEvalErrorf(f.ident.line, f.ident.col,
                          "status identifier in for statement already in use"))
    ELSE
    Let(eval(e, f.rangeExpr), LAMBDA r :
    IF r.err # NoError THEN ER(r.ev, NilValue, r.err)
    ELSE IF r.o.k # "ranger"
    THEN ER(r.ev, NilValue,
            newEvalErrorf(f.rangeExpr.line, f.rangeExpr.col,
                          "range expression in for statement did not produce a ranger.Ranger"))
    ELSE
    Let([PushScope(r.ev) EXCEPT !.loopLevel = @ + 1, !.active = Append(@, f.col)], LAMBDA e1 :
    Let(evalForLoop(e1, f, r.o.id, <<>>, 0, <<>>), LAMBDA lp :
    Let([RestoreScope(lp.ev, r.ev) EXCEPT
                  !.loopLevel = @ - 1, !.active = SubSeq(@, 1, Len(@) - 1)], LAMBDA e2 :
    Let(IF lp.err # NoError THEN NilValue ELSE toSingleOrSliceObject(lp.o), LAMBDA o :
       ER(Log(e2, [t |-> "for", for |-> f.col, begin |-> r.ev.rangers[r.o.id],
                   cause |-> lp.cause, n |-> lp.n,
                   captures |-> lp.captures, o |-> o, active |-> e2.active,
                   breakRequested |-> e2.breakRequested,
                   continueRequested |-> e2.continueRequested]),
          o, lp.err)))))))

(***************************************************************************)
(* Evaluator.Eval on a program as a state machine: the call, then one step *)
(* for every iteration of the loop of evalStatementsCaptureAll over the    *)
(* statements of the program, then the return.                             *)
(***************************************************************************)

\* Number of values of the rangers r and q of the scope handed to Eval.
RangeLen == 2

\* ev.scope before Eval is called: nil.
NewEvaluator ==
    [scopes |-> <<>>, locked |-> <<>>, loopLevel |-> 0, breakRequested |-> FALSE,
     continueRequested |-> FALSE, rangers |-> <<>>, trace |-> <<>>, active |-> <<>>,
     argumentResolvers |-> <<"default">>, mapOrder |-> <<>>]

\* The scope s handed to Eval: r and q are bound to two rangers,
\* s.Set("r", ranger.NewInt(0, RangeLen)) and the same for q.
\* t, f, e, g and m are bound to functions, c to a *Ctx and o to a struct
\* with the fields a interface{} = 1, n interface{} = nil and p *Ctx = nil
\* and the method k.
HostObject ==
    StructValue([n \in {<<"a">>, <<"n">>, <<"p">>} |->
                    CASE n = <<"a">> -> IntValue(1)
                      [] n = <<"n">> -> NilValue
                      [] n = <<"p">> -> PtrValue("Ctx", 0)],
                [n \in {<<"k">>} |-> FuncValue("t")])

EvalScope ==
    [n \in {<<"r">>, <<"q">>, <<"t">>, <<"f">>, <<"e">>, <<"g">>, <<"m">>, <<"c">>, <<"o">>} |->
        CASE n = <<"r">> -> RangerValue(1)
          [] n = <<"q">> -> RangerValue(2)
          [] n = <<"c">> -> PtrValue("Ctx", 3)
          [] n = <<"o">> -> HostObject
          [] OTHER -> FuncValue(n[1])]

NoRet == [o |-> NilValue, err |-> NoError]

\* Parse on the tokens toks: the loop over the statements and the program,
\* NoExpr when Parse returns an error.
RECURSIVE ParseLoop(_, _)
ParseLoop(ps, stmts) ==
    IF currTokenIs(ps, "EOF") THEN stmts
    ELSE Let(parseStatement(ps), LAMBDA r :
         IF r.err # NoError THEN <<NoExpr>> ELSE ParseLoop(r.p, Append(stmts, r.e)))

ParseProgram(toks) ==
    Let(parserInitialize(NewParser(toks)), LAMBDA r :
    IF r.err # NoError THEN NoExpr
    ELSE Let(ParseLoop(r.p, <<>>), LAMBDA stmts :
         IF stmts # <<>> /\ stmts[Len(stmts)] = NoExpr THEN NoExpr
         ELSE Program(r.p.curr.line, r.p.curr.col, stmts)))

\* The state after evaluator.New(), with the source parsed to the program.
InitEvalOn(sources) ==
    /\ \E s \in sources : prog = ParseProgram(MkTokens(s))
    /\ prog # NoExpr
    /\ ev = NewEvaluator
    /\ frame = [i |-> 0, os |-> <<>>]
    /\ ret = NoRet
    /\ epc = "new"
    /\ ScopeIdle /\ WriteIdle /\ LexerIdle /\ ParserIdle /\ RenderIdle /\ RangerIdle

\* Eval(n, s) up to the loop of evalStatementsCaptureAll: ev.scope = s and
\* os = make([]interface{}, len(st)).
EvalCall ==
    /\ epc = "new"
    /\ ev' = [ev EXCEPT !.scopes = <<EvalScope>>, !.locked = <<FALSE>>,
                        !.rangers = <<NewInt(0, RangeLen), NewInt(0, RangeLen)>>]
    /\ frame' = [i |-> 1, os |-> MakeOs(prog.stmts)]
    /\ epc' = "loop"
    /\ UNCHANGED <<prog, ret, scopeVars, writeVars, lexVars, parseVars, renderVars, rangerVars>>

\* One iteration of the loop over the statements of the program; on an
\* error, evalStatements, evalProgram, eval and Eval return it.
EvalStatement ==
    /\ epc = "loop"
    /\ frame.i <= Len(prog.stmts)
    /\ \E it \in {evalStatementsIteration(ev, prog.stmts, frame.i, frame.os)} :
          /\ ev' = it.ev
          /\ IF it.err # NoError
             THEN /\ ret' = [o |-> normalize(NilValue), err |-> it.err]
                  /\ epc' = "done"
                  /\ UNCHANGED frame
             ELSE /\ frame' = [i |-> IF it.stop THEN Len(prog.stmts) + 1 ELSE frame.i + 1,
                               os |-> it.os]
                  /\ UNCHANGED <<ret, epc>>
    /\ UNCHANGED <<prog, scopeVars, writeVars, lexVars, parseVars, renderVars, rangerVars>>

\* The loop is over: evalStatements returns the last element of os, eval
\* normalizes it and Eval returns it.
EvalReturn ==
    /\ epc = "loop"
    /\ frame.i > Len(prog.stmts)
    /\ ret' = [o |-> normalize(IF Len(frame.os) = 0 THEN NilValue ELSE frame.os[Len(frame.os)]),
               err |-> NoError]
    /\ epc' = "done"
    /\ UNCHANGED <<prog, ev, frame, scopeVars, writeVars, lexVars, parseVars, renderVars, rangerVars>>

NextEval == EvalCall \/ EvalStatement \/ EvalReturn

\* Largest number of statements of the block of the main statement.
MaxBody == 2

Kw(t, text) == <<t, text>>

SymLet == Kw("Let", <<"l", "e", "t">>)

SymAssign == Kw("Assign", <<"=">>)

SymFor == Kw("For", <<"f", "o", "r">>)

SymIn == Kw("In", <<"i", "n">>)

SymEnd == Kw("End", <<"e", "n", "d">>)

SymIf == Kw("If", <<"i", "f">>)

SymElse == Kw("Else", <<"e", "l", "s", "e">>)

SymTrue == Kw("True", <<"t", "r", "u", "e">>)

SymFalse == Kw("False", <<"f", "a", "l", "s", "e">>)

SymCapture == Kw("Capture", <<"c", "a", "p", "t", "u", "r", "e">>)

SymBreak == Kw("Break", <<"b", "r", "e", "a", "k">>)

SymContinue == Kw("Continue", <<"c", "o", "n", "t", "i", "n", "u", "e">>)

SymComma == Kw("Comma", <<",">>)

Id(name) == <<"Ident", <<name>>>>

Num(d) == <<"Int", <<d>>>>

\* The statements of the bodies:
\*   1                         x                        let x = 2
\*   break                     continue
\*   if true break end         if true continue end
\*   for j in q break end      for j in q continue end  for j in q 1 end
\*   capture let x = 2 1 end
BodyStatements ==
    {<<Num("1")>>, <<Id("x")>>, <<SymLet, Id("x"), SymAssign, Num("2")>>,
     <<SymBreak>>, <<SymContinue>>,
     <<SymIf, SymTrue, SymBreak, SymEnd>>, <<SymIf, SymTrue, SymContinue, SymEnd>>,
     <<SymFor, Id("j"), SymIn, Id("q"), SymBreak, SymEnd>>,
     <<SymFor, Id("j"), SymIn, Id("q"), SymContinue, SymEnd>>,
     <<SymFor, Id("j"), SymIn, Id("q"), Num("1"), SymEnd>>,
     <<SymCapture, SymLet, Id("x"), SymAssign, Num("2"), Num("1"), SymEnd>>}

RECURSIVE Flatten(_)
Flatten(ss) == IF ss = <<>> THEN <<>> ELSE Head(ss) \o Flatten(Tail(ss))

\* The main statement around the body b:
\*   b                         for i in r b end         for i, s in r b end
\*   for i, i in r b end       if true b end            if false 1 else b end
\*   capture b end
MainStatements(b) ==
    {b,
     <<SymFor, Id("i"), SymIn, Id("r")>> \o b \o <<SymEnd>>,
     <<SymFor, Id("i"), SymComma, Id("s"), SymIn, Id("r")>> \o b \o <<SymEnd>>,
     <<SymFor, Id("i"), SymComma, Id("i"), SymIn, Id("r")>> \o b \o <<SymEnd>>,
     <<SymIf, SymTrue>> \o b \o <<SymEnd>>,
     <<SymIf, SymFalse, Num("1"), SymElse>> \o b \o <<SymEnd>>,
     <<SymCapture>> \o b \o <<SymEnd>>}

\* What precedes and what follows the main statement: nothing, or let x = 1,
\* let i = 1 or let s = 1 before it, or the expression statement x after
\* it, or let x = 1 before and x after it.
Contexts ==
    {<<<<>>, <<>>>>, <<<<>>, <<Id("x")>>>>,
     <<<<SymLet, Id("x"), SymAssign, Num("1")>>, <<Id("x")>>>>}
    \cup {<<<<SymLet, Id(n), SymAssign, Num("1")>>, <<>>>> : n \in {"x", "i", "s"}}

\* The sources of the programs, as the symbols of their tokens.
EvalSources ==
    UNION {{c[1] \o m \o c[2] : m \in MainStatements(Flatten(b)), c \in Contexts} :
              b \in SeqsUpTo(BodyStatements, MaxBody)}

SpecEval == InitEvalOn(EvalSources) /\ [][NextEval]_vars


(***************************************************************************)
(* Eval on programs with operators, calls, fields and hashes.  The scope   *)
(* handed to Eval binds functions and objects of the host, the evaluator   *)
(* is configured with argument resolvers.                                  *)
(***************************************************************************)

\* WithArgumentResolver(r)
WithArgumentResolver(e, ra) == [e EXCEPT !.argumentResolvers = Append(@, ra)]

\* evaluator.New(opts...) with one WithArgumentResolver for every resolver
\* of ras, in this order.
RECURSIVE New(_, _)
New(e, ras) == IF ras = <<>> THEN e ELSE New(WithArgumentResolver(e, Head(ras)), Tail(ras))

(***************************************************************************)
(* The renderer of package template.  A renderer is a record of its loader *)
(* (a map from the names of the templates to their sources), its argument  *)
(* resolvers, its scope data and the name of its template function.        *)
(***************************************************************************)

\* NewRenderer(l)
NewRenderer(ld) ==
    [loader |-> ld, argumentResolvers |-> <<>>, scopeData |-> EmptyMap,
     templateFuncName |-> <<"t">>]

\* WithScopeData(key, value)
WithScopeData(r, key, value) == [r EXCEPT !.scopeData = MapPut(@, key, value)]

\* WithTemplateFuncName(n)
WithTemplateFuncName(r, n) == [r EXCEPT !.templateFuncName = n]

\* for k, v := range m { if keep(k) { s.Set(k, v) } }: the keys differ, so
\* every order of the range stores the same.
RECURSIVE SetAll(_, _, _, _, _)
SetAll(vs, lk, s, m, keep) ==
    IF keep = {} THEN vs
    ELSE LET key == CHOOSE n \in keep : TRUE IN
         SetAll(SetStore(vs, lk, s, key, m[key]), lk, s, m, keep \ {key})

\* The function renderTemplateFunc of Renderer.Render, a closure of the
\* variables r and data of the call of Render that makes it.
TemplateFunc(r, data) ==
    [k |-> "func", id |-> "renderTemplateFunc", r |-> r, data |-> data]

\* Renderer.Render up to the call of r.loader.Load: userScope, the test of
\* the template function name, rendererScope.  [scopes, lk, err]
renderScopes(r, data) ==
    Let(SetAll(<<EmptyMap>>, <<FALSE>>, 1, r.scopeData, DOMAIN r.scopeData), LAMBDA userScope :
    IF HasValue(userScope, 1, r.templateFuncName)
    THEN [scopes |-> userScope, locked |-> <<FALSE>>,
          err |-> HostError("cannot use template function name, identifer already in use")]
    ELSE [scopes |-> SetStore(Append(userScope, EmptyMap), <<TRUE, FALSE>>, 2,
                              r.templateFuncName, TemplateFunc(r, data)),
          locked |-> <<TRUE, TRUE>>, err |-> NoError])

\* newTemplateScope(data, parent): the chain with the new scope, in which
\* every value of data that is not nil has been set.
newTemplateScope(data, scopes, lk) ==
    SetAll(Append(scopes, EmptyMap), Append(lk, FALSE), Len(scopes) + 1, data,
           {key \in DOMAIN data : data[key] # NilValue})

\* capture(statements)
capture(stmts) ==
    ExpressionStatement(0, 0, CaptureExpression(0, 0, Block(0, 0, stmts)))

\* evaluator.New(newEvaluatorOpts...) of Render and Renderer.Render: the
\* resolver of the scope, the resolver of the context, then those of the
\* renderer; Eval sets ev.scope to the template scope.
RenderEvaluator(r, scopes, lk) ==
    [New(NewEvaluator, <<"scope", "context">> \o r.argumentResolvers)
        EXCEPT !.scopes = scopes, !.locked = lk]

\* Render(rd, w, data, s, evaluatorOpts...) up to write, and render, on the
\* tokens of the template.  scopes0 is the chain of the template scope
\* before the template is evaluated (history).
templateRender(r, toks, data, scopes, lk) ==
    Let(newTemplateScope(data, scopes, lk), LAMBDA templateScope :
    Let(ParseProgram(toks), LAMBDA parsedProg :
    IF parsedProg = NoExpr
    THEN [o |-> NilValue, err |-> newParseErrorf(1, 1, "parse error"),
          ev |-> RenderEvaluator(r, templateScope, Append(lk, FALSE)),
          scopes0 |-> templateScope]
    ELSE Let(eval(RenderEvaluator(r, templateScope, Append(lk, FALSE)),
                  Program(0, 0, <<capture(parsedProg.stmts)>>)), LAMBDA res :
         [o |-> res.o, err |-> res.err, ev |-> res.ev, scopes0 |-> templateScope])))

\* fmt.Errorf("error rendering template %s: %w", name, err)
renderError(err) == [err EXCEPT !.msg = "error rendering template"]

\* Renderer.Render from r.loader.Load on, with the scopes sc of
\* renderScopes: [out, err, ev, scopes0], out the bytes written to w
renderLoaded(r, name, data, sc) ==
    IF name \notin DOMAIN r.loader
    THEN [out |-> <<>>, err |-> HostError("template not found"), ev |-> NewEvaluator,
          scopes0 |-> <<>>]
    ELSE Let(templateRender(r, MkTokens(r.loader[name]), data, sc.scopes, sc.locked),
             LAMBDA res :
         IF res.err # NoError
         THEN [out |-> <<>>, err |-> renderError(res.err), ev |-> res.ev,
               scopes0 |-> res.scopes0]
         ELSE [out |-> expectSafe(res.o), err |-> NoError, ev |-> res.ev,
               scopes0 |-> res.scopes0])

\* r.Render(ctx, w, name, data)
RendererRender(r, name, data) ==
    Let(renderScopes(r, data), LAMBDA sc :
    IF sc.err # NoError
    THEN [out |-> <<>>, err |-> sc.err, ev |-> NewEvaluator, scopes0 |-> <<>>]
    ELSE renderLoaded(r, name, data, sc))

\* Mutant of renderTemplateFunc: the rendered template gets the data of
\* the call of Render that made the function.
renderTemplateFunc_OuterData(f, name, data) ==
    Let(RendererRender(f.r, name, f.data), LAMBDA sub :
    IF sub.err # NoError THEN [rs |-> <<SafeStringValue(<<>>), sub.err>>, sub |-> sub]
    ELSE [rs |-> <<SafeStringValue(sub.out), NilValue>>, sub |-> sub])

\* renderTemplateFunc(name, data, ctx) of the closure f: the values that it
\* returns, and the rendering that it did (history)
renderTemplateFunc(f, name, data) ==
    Let(RendererRender(f.r, name, data), LAMBDA sub :
    IF sub.err # NoError THEN [rs |-> <<SafeStringValue(<<>>), sub.err>>, sub |-> sub]
    ELSE [rs |-> <<SafeStringValue(sub.out), NilValue>>, sub |-> sub])

\* No rendering: the function called is not the template function.
NoSub == [out |-> <<>>, err |-> NoError, ev |-> NewEvaluator, scopes0 |-> <<>>]

\* fValue.Call(params) for the function f of the host or of the renderer
CallFunc(f, params) ==
    IF f.id = "renderTemplateFunc"
    THEN renderTemplateFunc(f, params[1].s, params[2].m)
    ELSE [rs |-> Call(f.id, params), sub |-> NoSub]

\* Largest number of conditions of an if expression.
MaxConds == 2

\* Largest number of argument resolvers that the host registers.
MaxResolvers == 2

\* Largest number of entries of a hash literal.
MaxEntries == 2

SymLeftParen == Kw("LeftParen", <<"(">>)

SymRightParen == Kw("RightParen", <<")">>)

SymLeftBrace == Kw("LeftBrace", <<"{">>)

SymRightBrace == Kw("RightBrace", <<"}">>)

SymColon == Kw("Colon", <<":">>)

SymElseIf == Kw("ElseIf", <<"e", "l", "s", "e", "i", "f">>)

\* name()
CallOf(name) == <<Id(name), SymLeftParen, SymRightParen>>

\* The operands: true, false, the calls t(), f() and e(), the integers 0,
\* 1, 2 and -7, and the unbound identifier u.
Operands ==
    {<<SymTrue>>, <<SymFalse>>, CallOf("t"), CallOf("f"), CallOf("e"), <<Num("0")>>,
     <<Num("1")>>, <<Num("2")>>, <<Kw("Minus", <<"-">>), Num("7")>>, <<Id("u")>>}

Operators ==
    {Kw("And", <<"&", "&">>), Kw("Or", <<"|", "|">>), Kw("Slash", <<"/">>), Kw("Mod", <<"%">>),
     Kw("Plus", <<"+">>), Kw("Equal", <<"=", "=">>)}

\* left operator right
InfixSources == {lo \o <<op>> \o ro : lo \in Operands, op \in Operators, ro \in Operands}

\* The conditions of the if expressions.
Conditions ==
    {<<SymTrue>>, <<SymFalse>>, CallOf("t"), CallOf("f"), CallOf("e"), <<Num("1")>>,
     <<Id("u")>>}

\* if c1 1 elseif c2 1 ... end, and with else 1 before the end.
RECURSIVE IfSymbols(_, _)
IfSymbols(cs, first) ==
    IF cs = <<>> THEN <<>>
    ELSE <<IF first THEN SymIf ELSE SymElseIf>> \o Head(cs) \o <<Num("1")>>
         \o IfSymbols(Tail(cs), FALSE)

IfSources ==
    UNION {{IfSymbols(cs, TRUE) \o <<SymEnd>>,
            IfSymbols(cs, TRUE) \o <<SymElse, Num("1"), SymEnd>>} :
              cs \in SeqsUpTo(Conditions, MaxConds) \ {<<>>}}

\* Calls of the functions g(c *Ctx) and m(i int64, c *Ctx), of e and of what
\* is no function.
CallSources ==
    {CallOf("g"), CallOf("m"), CallOf("e"), CallOf("o"), CallOf("u"),
     <<Id("g"), SymLeftParen, Id("c"), SymRightParen>>,
     <<Id("g"), SymLeftParen, Num("1"), SymRightParen>>,
     <<Id("g"), SymLeftParen, Kw("Nil", <<"n", "i", "l">>), SymRightParen>>,
     <<Id("m"), SymLeftParen, Num("1"), SymRightParen>>,
     <<Id("m"), SymLeftParen, Num("1"), SymComma, Id("c"), SymRightParen>>,
     <<Id("t"), SymLeftParen, Num("1"), SymRightParen>>,
     <<Num("1"), Kw("Plus", <<"+">>)>> \o CallOf("e")}

\* o.name, o.name() and c.a
FieldSources ==
    {<<Id("o"), Kw("Dot", <<".">>), Id(n)>> : n \in {"a", "n", "p", "k", "z"}}
    \cup {<<Id("o"), Kw("Dot", <<".">>), Id("k"), SymLeftParen, SymRightParen>>,
          <<Id("c"), Kw("Dot", <<".">>), Id("a")>>,
          <<Id("u"), Kw("Dot", <<".">>), Id("a")>>,
          <<Kw("Nil", <<"n", "i", "l">>), Kw("Dot", <<".">>), Id("a")>>}

\* The keys of the hash literals.
HashKeys == <<"a", "b", "d">>

\* The values of the entries of the hash literals.
EntryValues == {CallOf("t"), CallOf("e"), <<Id("u")>>, <<Num("1")>>}

\* { "a": v1, "b": v2 } for the values vs
RECURSIVE EntrySymbols(_, _)
EntrySymbols(vs, i) ==
    IF i > Len(vs) THEN <<>>
    ELSE (IF i = 1 THEN <<>> ELSE <<SymComma>>) \o <<StringSymbol(<<HashKeys[i]>>), SymColon>> \o vs[i]
         \o EntrySymbols(vs, i + 1)

HashSources ==
    {<<SymLeftBrace>> \o EntrySymbols(vs, 1) \o <<SymRightBrace>> :
        vs \in SeqsUpTo(EntryValues, MaxEntries)}
    \cup {<<SymLeftBrace, StringSymbol(<<"a">>), SymColon, Num("1"), SymRightBrace,
             Kw("Dot", <<".">>), Id(n)>> : n \in {"a", "b"}}

\* The orders in which a range statement can visit the keys of a map.
RECURSIVE Orders(_)
Orders(keys) ==
    IF keys = {} THEN {<<>>}
    ELSE UNION {{<<key>> \o rest : rest \in Orders(keys \ {key})} : key \in keys}

\* An evaluation: the source of the program, the argument resolvers that
\* the host registers and the order of the keys of the maps.
Run(src, ras, order) == [src |-> src, ras |-> ras, order |-> order]

Runs ==
    {Run(src, <<>>, <<>>) : src \in InfixSources \cup IfSources \cup FieldSources}
    \cup {Run(src, ras, <<>>) :
             src \in CallSources, ras \in SeqsUpTo({"A", "B", "none", "failing"}, MaxResolvers)}
    \cup {Run(src, <<>>, order) :
             src \in HashSources,
             order \in Orders({<<HashKeys[i]>> : i \in 1..MaxEntries})}

\* The state after evaluator.New(opts...), with the source parsed to the
\* program.
InitEvalOps ==
    /\ \E run \in Runs :
          /\ prog = ParseProgram(MkTokens(run.src))
          /\ ev = [New(NewEvaluator, run.ras) EXCEPT !.mapOrder = run.order]
    /\ prog # NoExpr
    /\ frame = [i |-> 0, os |-> <<>>]
    /\ ret = NoRet
    /\ epc = "new"
    /\ ScopeIdle /\ WriteIdle /\ LexerIdle /\ ParserIdle /\ RenderIdle /\ RangerIdle

SpecEvalOps == InitEvalOps /\ [][NextEval]_vars


(***************************************************************************)
(* Claims about the evaluator, stated over the history ev.trace.           *)
(***************************************************************************)

\* The events of statements begun, iterations begun and for expressions left.
IsStep(event) == event.t \in {"stmt", "iter", "for"}

\* The index of the first such event after the k-th of the trace tr, 0 when
\* there is none.
NextStep(tr, k) ==
    LET later == {m \in (k + 1)..Len(tr) : IsStep(tr[m])} IN
    IF later = {} THEN 0 ELSE CHOOSE m \in later : \A m2 \in later : m <= m2

\* The k-th event of tr is a break or continue statement begun while a for
\* expression is iterating.
IsLoopExit(tr, k, kind) ==
    /\ tr[k].t = "stmt"
    /\ tr[k].k = kind
    /\ tr[k].loopLevel > 0

Innermost(event) == event.active[Len(event.active)]

IsExitOutsideLoop(tr, k) ==
    /\ tr[k].t = "stmt"
    /\ tr[k].k \in {"BreakStatement", "ContinueStatement"}
    /\ tr[k].loopLevel = 0

\* C15: a break or continue begun at loop level zero, as a statement of the
\* program or of an if or capture block, is the last statement evaluated:
\* Eval returns nil and the evaluation error "break outside of loop" or
\* "continue outside of loop" at the position of that statement.
C15_ExitOutsideLoopIsError ==
    \A k \in 1..Len(ev.trace) :
       IsExitOutsideLoop(ev.trace, k) =>
          /\ NextStep(ev.trace, k) = 0
          /\ epc = "done"
          /\ ret.o = NilValue
          /\ ret.err = newEvalErrorf(1, ev.trace[k].at,
                                     IF ev.trace[k].k = "BreakStatement"
                                     THEN "break outside of loop"
                                     ELSE "continue outside of loop")

\* Eval has returned after a continue begun at loop level zero, right after
\* an expression statement.
C15_Witness ==
    /\ epc = "done"
    /\ \E k \in 3..Len(ev.trace) :
          /\ IsExitOutsideLoop(ev.trace, k)
          /\ ev.trace[k].k = "ContinueStatement"
          /\ ev.trace[k - 1].t = "stmt"
          /\ ev.trace[k - 1].k = "ExpressionStatement"


\* The lists of seqs, one after the other.
RECURSIVE Concat(_)
Concat(seqs) == IF seqs = <<>> THEN <<>> ELSE Head(seqs) \o Concat(Tail(seqs))

\* How many more times Next returns true on the int ranger rg.
NextCount(rg) == rg.maxExclusive - rg.current - 1

\* The iterations of the for expression left at the k-th event of tr: the
\* last tr[k].n iteration events of that for before k.
IterationsOf(tr, k) ==
    LET all == {j \in 1..(k - 1) : tr[j].t = "iter" /\ tr[j].for = tr[k].for} IN
    {j \in all : Cardinality({j2 \in all : j2 >= j}) <= tr[k].n}

\* C16: a for expression left because its ranger is exhausted, whose ranger
\* had N values left when the loop began, has begun exactly N iterations, in
\* the order of the ranger and with the loop identifier bound to its N
\* successive values, has evaluated its body N times, and its value is
\* toSingleOrSliceObject of the N captured lists one after the other.
C16_ForIteratesOverRanger ==
    LET tr == ev.trace IN
    \A k \in 1..Len(tr) :
       (tr[k].t = "for" /\ tr[k].cause = "exhausted") =>
          LET N == NextCount(tr[k].begin)
              its == IterationsOf(tr, k) IN
          /\ tr[k].n = N
          /\ Len(tr[k].captures) = N
          /\ Cardinality(its) = N
          /\ \A j \in its :
                /\ tr[j].v = IntValue(tr[k].begin.current + tr[j].n)
                /\ tr[j].ident \in DOMAIN tr[j].bound
                /\ tr[j].bound[tr[j].ident] = tr[j].v
                /\ \A j2 \in its : j < j2 => tr[j].n < tr[j2].n
          /\ tr[k].o = toSingleOrSliceObject(Concat(tr[k].captures))


\* The name is bound in one of the scopes, which are the current scope and
\* all the scopes that enclose it.
IsBound(scopes, name) == \E s \in 1..Len(scopes) : name \in DOMAIN scopes[s]

\* The for expression entered at the k-th event of tr must be refused: its
\* loop identifier or its status identifier is bound already, or the two are
\* the same name.
ForMustFail(tr, k) ==
    /\ tr[k].t = "enter"
    /\ \/ IsBound(tr[k].scopes, tr[k].ident.name)
       \/ /\ tr[k].statusIdent # NoExpr
          /\ \/ IsBound(tr[k].scopes, tr[k].statusIdent.name)
             \/ tr[k].statusIdent.name = tr[k].ident.name

\* C17: a for expression whose loop identifier or status identifier is bound
\* in an enclosing scope, or whose status identifier is its loop identifier,
\* gives an evaluation error: no iteration is begun and no statement is
\* evaluated after the for expression is entered, and Eval returns an error.
C17_ForIdentifiersInUse ==
    \A k \in 1..Len(ev.trace) :
       ForMustFail(ev.trace, k) =>
          /\ NextStep(ev.trace, k) = 0
          /\ epc = "done"
          /\ ret.err # NoError


\* The scopes that enclose the current scope of the let statement of the k-th
\* event of tr and bind its name.
EnclosingBindings(tr, k) ==
    {s \in 1..(tr[k].scope - 1) : tr[k].name \in DOMAIN tr[k].before[s]}

\* The greatest element of the nonempty set S of numbers.
Max(S) == CHOOSE x \in S : \A y \in S : y <= x

\* The let statements on name between the events k and j of tr.
LetsBetween(tr, k, j, name) ==
    {m \in (k + 1)..(j - 1) : tr[m].t = "let" /\ tr[m].name = name}

Lookup(scopes, name) ==
    scopes[Max({s \in 1..Len(scopes) : name \in DOMAIN scopes[s]})][name]

\* The scope of the block whose statements have been evaluated at the k-th
\* event of tr, as the block leaves it.
BlockScope(tr, k) == tr[k].scopes[Len(tr[k].scopes)]

\* C19: the names that the let statements of the chosen branch of an if have
\* bound, being unbound before, are bound to the same values in the scope
\* of the if once the if expression is left, for the statements that follow.
C19_LetInBranchOutlivesIf ==
    LET tr == ev.trace IN
    \A m \in 2..Len(tr) :
       (tr[m].t = "if" /\ tr[m - 1].t = "captured") =>
          \A name \in DOMAIN BlockScope(tr, m - 1) :
             /\ IsBound(tr[m].scopes, name)
             /\ Lookup(tr[m].scopes, name) = BlockScope(tr, m - 1)[name]


\* The statements of the block of the k-th event of tr whose values are to
\* be captured: the expression statements that have been executed, but for
\* the one that left the block by a break or continue.
CapturedStatements(tr, k) ==
    {i \in 1..tr[k].ran :
        /\ tr[k].kinds[i] = "ExpressionStatement"
        /\ ~(tr[k].stopped /\ i = tr[k].ran)}

\* C20: the list captured for a block of capture, if or for has exactly one
\* entry for every expression statement executed in the block, and none for
\* its let, break and continue statements nor for the statements skipped
\* after a break or continue.
C20_CapturedListHasOnlyExpressionValues ==
    \A k \in 1..Len(ev.trace) :
       ev.trace[k].t = "captured" =>
          Len(ev.trace[k].os) = Cardinality(CapturedStatements(ev.trace, k))

(***************************************************************************)
(* Claims about operators, calls, fields and hashes, stated over the       *)
(* history ev.trace of SpecEvalOps.                                        *)
(***************************************************************************)

\* The if expressions that are statements of the program.
TopIfs ==
    {prog.stmts[n].expr : n \in {m \in 1..Len(prog.stmts) :
                                    /\ prog.stmts[m].k = "ExpressionStatement"
                                    /\ prog.stmts[m].expr.k = "IfExpression"}}

\* The conditions of the if expression x that have been evaluated to a
\* bool, in the order of their evaluation.
CondsOf(x) == SelectSeq(ev.trace, LAMBDA event : event.t = "cond" /\ event.if = x.col)

\* The conditionals of x a statement of whose block has been begun.
BlocksBegun(x) ==
    {j \in 1..Len(x.conds) :
        \E k \in 1..Len(ev.trace), m \in 1..Len(x.conds[j].block.stmts) :
           /\ ev.trace[k].t = "stmt"
           /\ ev.trace[k].at = StmtPos(x.conds[j].block.stmts[m])}

\* C21: the conditions of an if expression are evaluated in source order,
\* none after the first one that is true (a conditional without condition
\* counts as true); only the block of that conditional is executed, and
\* its value is the value of the if expression; when no conditional is
\* selected no block is executed and the if expression yields nil.
C21_IfSelectsFirstTrueConditional ==
    \A x \in TopIfs :
       LET cs == CondsOf(x) IN
       /\ \A n \in 1..Len(cs) : cs[n].j = n /\ (n < Len(cs) => ~cs[n].v)
       /\ \A j \in BlocksBegun(x) : Len(cs) = j /\ cs[j].v
       /\ \A k \in 1..Len(ev.trace) :
             /\ (ev.trace[k].t = "if" /\ ev.trace[k].if = x.col) =>
                   /\ BlocksBegun(x) = {ev.trace[k].taken}
                   /\ k = Len(ev.trace)
                   /\ epc = "done" => ret = [o |-> ev.trace[k].o, err |-> NoError]
             /\ (ev.trace[k].t = "ifnone" /\ ev.trace[k].if = x.col) =>
                   /\ BlocksBegun(x) = {}
                   /\ Len(cs) = Len(x.conds)
                   /\ \A n \in 1..Len(cs) : ~cs[n].v
                   /\ epc = "done" => ret = [o |-> NilValue, err |-> NoError]
       /\ (epc = "done" /\ ret.err = NoError) =>
             \E k \in 1..Len(ev.trace) :
                ev.trace[k].t \in {"if", "ifnone"} /\ ev.trace[k].if = x.col

\* An if expression with three conditionals has selected the second one
\* after a call in its first condition returned false, or has selected
\* none of two.
C21_Witness ==
    /\ epc = "done"
    /\ \E x \in TopIfs :
          /\ Len(x.conds) = 3
          /\ Len(CondsOf(x)) = 2
          /\ \E k \in 1..Len(ev.trace) : ev.trace[k].t = "call" /\ ev.trace[k].f = "f"
          /\ ev.trace[Len(ev.trace)].t = "if"
          /\ ev.trace[Len(ev.trace)].taken = 2
          /\ ret.o = Int64Value(1)

\* The left operand of the infix expression of the event decides the value
\* of && or ||: false && ..., true || ...
DecidedByLeft(event) ==
    /\ event.t = "left"
    /\ event.v.k = "bool"
    /\ \/ event.op = <<"&", "&">> /\ ~event.v.b
       \/ event.op = <<"|", "|">> /\ event.v.b

\* The infix expression of the event is the last statement of the program.
IsLastStatement(event) ==
    /\ prog.stmts # <<>>
    /\ prog.stmts[Len(prog.stmts)].k = "ExpressionStatement"
    /\ prog.stmts[Len(prog.stmts)].expr.k = "InfixExpression"
    /\ prog.stmts[Len(prog.stmts)].expr.col = event.at
    /\ prog.stmts[Len(prog.stmts)].expr.left = event.left
    /\ prog.stmts[Len(prog.stmts)].expr.right = event.right

\* C22: when the left operand of && is the bool false, or the left operand
\* of || is the bool true, the infix expression yields false, or true,
\* and nothing of the right operand is evaluated: no function is called
\* after the left operand, and Eval returns the value without an error.
C22_ShortCircuit ==
    \A k \in 1..Len(ev.trace) :
       DecidedByLeft(ev.trace[k]) =>
          /\ k < Len(ev.trace)
          /\ ev.trace[k + 1].t = "short"
          /\ ev.trace[k + 1].at = ev.trace[k].at
          /\ ev.trace[k + 1].o = ev.trace[k].v
          /\ \A n \in (k + 1)..Len(ev.trace) :
                ~(ev.trace[n].t = "call" /\ ev.trace[n].at >= ev.trace[k].right.col)
          /\ (epc = "done" /\ IsLastStatement(ev.trace[k])) =>
                ret = [o |-> ev.trace[k].v, err |-> NoError]

\* Eval has returned true for t() || e(), where the call e() returns an
\* error.
C22_Witness ==
    /\ epc = "done"
    /\ ret = [o |-> BoolValue(TRUE), err |-> NoError]
    /\ \E k \in 1..Len(ev.trace) :
          /\ DecidedByLeft(ev.trace[k])
          /\ IsLastStatement(ev.trace[k])
          /\ ev.trace[k].op = <<"|", "|">>
          /\ ev.trace[k].left.k = "CallExpression"
          /\ ev.trace[k].right.k = "CallExpression"
          /\ ev.trace[k].right.callee.name = <<"e">>

\* The event records / or % applied to two integers, the right one zero.
IsDivisionByZero(event) ==
    /\ event.t = "infix"
    /\ event.x.op \in {<<"/">>, <<"%">>}
    /\ event.left.k = "int64"
    /\ event.right = Int64Value(0)

\* The column of the operator token of the infix expression x: on a line
\* whose tokens are one column wide, the column before the first token of
\* the right operand.
OperatorCol(x) == x.right.col - 1

\* C23: integer / and % with a zero right operand produce no value: the
\* infix expression fails with an evaluation error whose line and column
\* are those of the operator, and Eval returns this error.
C23_DivisionByZeroErrorAtOperator ==
    \A k \in 1..Len(ev.trace) :
       IsDivisionByZero(ev.trace[k]) =>
          /\ ev.trace[k].o = NilValue
          /\ IsEvaluationError(ev.trace[k].err)
          /\ ev.trace[k].err.line = ev.trace[k].x.right.line
          /\ ev.trace[k].err.col = OperatorCol(ev.trace[k].x)
          /\ epc = "done" => ret = [o |-> NilValue, err |-> ev.trace[k].err]

\* The resolvers of the evaluator, in the order of their registration, that
\* return a value that is not nil for the type pType.
Providers(pType) ==
    {j \in 1..Len(ev.argumentResolvers) : Resolve(ev.argumentResolvers[j], pType)[1] # NilValue}

Least(S) == CHOOSE j \in S : \A o \in S : j <= o

\* The function that the call expression c calls when its callee is an
\* identifier that the scope handed to Eval binds to a function, "" else.
Callee(c) ==
    IF c.callee.k = "Ident" /\ c.callee.name \in DOMAIN EvalScope
       /\ EvalScope[c.callee.name].k = "func"
    THEN EvalScope[c.callee.name].id ELSE ""

\* The statements of the program that call a function without supplying a
\* parameter for whose type no resolver returns a value.
UnresolvedCalls ==
    {n \in 1..Len(prog.stmts) :
        /\ prog.stmts[n].k = "ExpressionStatement"
        /\ prog.stmts[n].expr.k = "CallExpression"
        /\ Callee(prog.stmts[n].expr) # ""
        /\ \E i \in (Len(prog.stmts[n].expr.params) + 1)..NumIn(Callee(prog.stmts[n].expr)) :
              Providers(In(Callee(prog.stmts[n].expr))[i]) = {}}

\* C24: with resolvers that return no error, every parameter that a call
\* does not supply has the value of the first resolver, in the order of
\* registration, that returns a value for the type of the parameter; a
\* call with a parameter for which no resolver returns a value is an
\* evaluation error, and the function is not called.
C24_UnsuppliedParametersResolved ==
    (\A j \in 1..Len(ev.argumentResolvers) : ev.argumentResolvers[j] # "failing") =>
       /\ \A k \in 1..Len(ev.trace) :
             ev.trace[k].t = "call" =>
                \A i \in (ev.trace[k].explicit + 1)..NumIn(ev.trace[k].f) :
                   /\ Providers(In(ev.trace[k].f)[i]) # {}
                   /\ ev.trace[k].params[i] =
                         Resolve(ev.argumentResolvers[Least(Providers(In(ev.trace[k].f)[i]))],
                                 In(ev.trace[k].f)[i])[1]
       /\ (epc = "done" /\ UnresolvedCalls # {}) =>
             /\ IsEvaluationError(ret.err)
             /\ \A k \in 1..Len(ev.trace) : ev.trace[k].t # "call"

\* The event records a call whose last return value is an error.
IsFailedCall(event) ==
    /\ event.t = "call"
    /\ event.rs # <<>>
    /\ "host" \in DOMAIN event.rs[Len(event.rs)]

\* C25: when the last value that a called function returns is an error,
\* nothing is evaluated after the call (the expressions around it end
\* with the error) and Eval returns an evaluation error whose line and
\* column are those of the call expression.
C25_ErrorOfCalledFunctionIsLocated ==
    \A k \in 1..Len(ev.trace) :
       IsFailedCall(ev.trace[k]) =>
          /\ \A n \in (k + 1)..Len(ev.trace) :
                ev.trace[n].t = "hash" /\ ev.trace[n].err # NoError
          /\ epc = "done" =>
                /\ IsEvaluationError(ret.err)
                /\ ret.err.line = prog.line
                /\ ret.err.col = ev.trace[k].at

\* C26: a field expression on a struct of the host yields the value of the
\* field of that name whenever the struct has such a field, whatever the
\* value is; it yields the method of that name only when there is no such
\* field; it fails only when the struct has neither.
C26_FieldBeforeMethod ==
    \A k \in 1..Len(ev.trace) :
       (ev.trace[k].t = "field" /\ ev.trace[k].object.k = "struct") =>
          LET object == ev.trace[k].object
              name == ev.trace[k].name IN
          /\ name \in DOMAIN object.fields =>
                ev.trace[k].err = NoError /\ ev.trace[k].o = object.fields[name]
          /\ (name \notin DOMAIN object.fields /\ name \in DOMAIN object.methods) =>
                ev.trace[k].err = NoError /\ ev.trace[k].o = object.methods[name]
          /\ ev.trace[k].err # NoError =>
                name \notin DOMAIN object.fields /\ name \notin DOMAIN object.methods

\* C27: the value expressions of a hash literal are evaluated in the order
\* of the entries in the source, each one once: the i-th expression that is
\* evaluated is the i-th of the source, all are evaluated when none fails,
\* and the error of a hash literal is that of its first failing entry.
C27_HashValuesInSourceOrder ==
    \A k \in 1..Len(ev.trace) :
       ev.trace[k].t = "hash" =>
          /\ \A i \in 1..Len(ev.trace[k].order) :
                Cardinality({c \in ev.trace[k].cols : c <= ev.trace[k].order[i]}) = i
          /\ ev.trace[k].err = NoError =>
                Len(ev.trace[k].order) = Cardinality(ev.trace[k].cols)


(***************************************************************************)
(* Renderer.Render as a state machine: the scopes of the renderer, then    *)
(* the loading and the evaluation of the template, then the output.  The   *)
(* loader knows the template m, which the host renders, and the template   *)
(* s, which m renders through the template function.                       *)
(***************************************************************************)

\* Largest number of entries of the scope data and of the data map.
MaxData == 1

\* name(args) with the string "s" as its first argument
RenderOf(fn, args) ==
    <<Id(fn), SymLeftParen, StringSymbol(<<"s">>)>> \o args \o <<SymRightParen>>

\* The sources of the template m for the name fn of the template function.
MainSources(fn) ==
    {<<Id("x")>>, <<Id("t")>>, <<Id("i")>>,
     RenderOf(fn, <<>>),
     <<SymLet, Id("x"), SymAssign, Num("3")>> \o RenderOf(fn, <<>>),
     <<SymLet, Id("z"), SymAssign, Num("3")>> \o RenderOf(fn, <<>>) \o <<Id("z")>>,
     RenderOf(fn, <<>>) \o <<Id("y")>>,
     RenderOf(fn, <<>>) \o <<Id("x")>>,
     RenderOf(fn, <<SymComma, SymLeftBrace, StringSymbol(<<"x">>), SymColon, Num("4"),
                    SymRightBrace>>),
     <<Id(fn), SymLeftParen, StringSymbol(<<"n">>), SymRightParen>>,
     RenderOf(fn, <<>>) \o <<SymLeftParen>>,
     RenderOf(fn, <<>>) \o <<<<"Error", <<>>>>>>}

\* The sources of the template s.
SubSources ==
    {<<Id("x")>>, <<Id("y")>>, <<Id("z")>>, <<Num("1")>>,
     <<SymLet, Id("y"), SymAssign, Num("2"), Id("y")>>,
     <<SymLet, Id("x"), SymAssign, Num("5"), Id("x")>>}

\* The maps from at most MaxData of the names to one of the values.
DataMaps(names, vals) ==
    UNION {[K -> vals] : K \in {S \in SUBSET names : Cardinality(S) <= MaxData}}

RECURSIVE WithScopeDataMap(_, _)
\* WithScopeDataMap(data)
WithScopeDataMap(r, data) ==
    IF DOMAIN data = {} THEN r
    ELSE LET key == CHOOSE n \in DOMAIN data : TRUE IN
         WithScopeDataMap(WithScopeData(r, key, data[key]),
                          [n \in DOMAIN data \ {key} |-> data[n]])

\* No result of renderScopes or templateRender yet.
NoScopes == [scopes |-> <<>>, locked |-> <<>>, err |-> NoError]

NoRender == [o |-> NilValue, err |-> NoError, ev |-> NewEvaluator, scopes0 |-> <<>>]

\* The state before r.Render(ctx, w, name, data) is called.
InitRender ==
    /\ \E fn \in {"t", "i"} :
       \E main \in MainSources(fn), sub \in SubSources,
          name \in {<<"m">>, <<"n">>},
          scopeData \in DataMaps({<<"x">>, <<"t">>}, {IntValue(1)}),
          data \in DataMaps({<<"x">>, <<"y">>, <<"t">>}, {IntValue(2), NilValue}) :
             rend = [r |-> WithTemplateFuncName(
                              WithScopeDataMap(
                                  NewRenderer([n \in {<<"m">>, <<"s">>} |->
                                                  IF n = <<"m">> THEN main ELSE sub]),
                                  scopeData),
                              <<fn>>),
                     name |-> name, data |-> data, sc |-> NoScopes, res |-> NoRender,
                     out |-> <<>>, err |-> NoError]
    /\ rpc = "new"
    /\ ScopeIdle /\ WriteIdle /\ LexerIdle /\ ParserIdle /\ EvalIdle /\ RangerIdle

\* Render up to rendererScope.Lock()
RenderScopes ==
    /\ rpc = "new"
    /\ LET sc == renderScopes(rend.r, rend.data) IN
          /\ rend' = [rend EXCEPT !.sc = sc, !.err = sc.err]
          /\ rpc' = IF sc.err # NoError THEN "done" ELSE "scoped"
    /\ UNCHANGED <<scopeVars, writeVars, lexVars, parseVars, evalVars, rangerVars>>

\* Mutant of RenderTemplate: the template function renders into w, not
\* into a buffer of its own.
RenderTemplate_SubToWriter ==
    /\ rpc = "scoped"
    /\ IF rend.name \notin DOMAIN rend.r.loader
       THEN /\ rend' = [rend EXCEPT !.err = HostError("template not found")]
            /\ rpc' = "done"
       ELSE LET res == templateRender(rend.r, MkTokens(rend.r.loader[rend.name]), rend.data,
                                      rend.sc.scopes, rend.sc.locked)
                subs == SelectSeq(res.ev.trace,
                                  LAMBDA c : c.t = "call" /\ c.f = "renderTemplateFunc") IN
            /\ rend' = [rend EXCEPT !.res = res,
                                    !.err = IF res.err # NoError THEN renderError(res.err)
                                            ELSE NoError,
                                    !.out = Flatten([i \in 1..Len(subs) |-> subs[i].sub.out])]
            /\ rpc' = IF res.err # NoError THEN "done" ELSE "evaluated"
    /\ UNCHANGED <<scopeVars, writeVars, lexVars, parseVars, evalVars, rangerVars>>

\* rd, err := r.loader.Load(name) and Render(rd, w, data, &rendererScope,
\* evaluatorOpts...) up to the call of write
RenderTemplate ==
    /\ rpc = "scoped"
    /\ IF rend.name \notin DOMAIN rend.r.loader
       THEN /\ rend' = [rend EXCEPT !.err = HostError("template not found")]
            /\ rpc' = "done"
       ELSE LET res == templateRender(rend.r, MkTokens(rend.r.loader[rend.name]), rend.data,
                                      rend.sc.scopes, rend.sc.locked) IN
            /\ rend' = [rend EXCEPT !.res = res,
                                    !.err = IF res.err # NoError THEN renderError(res.err)
                                            ELSE NoError]
            /\ rpc' = IF res.err # NoError THEN "done" ELSE "evaluated"
    /\ UNCHANGED <<scopeVars, writeVars, lexVars, parseVars, evalVars, rangerVars>>

\* write(w, o) and the return of Render
RenderWrite ==
    /\ rpc = "evaluated"
    /\ rend' = [rend EXCEPT !.out = expectSafe(rend.res.o)]
    /\ rpc' = "done"
    /\ UNCHANGED <<scopeVars, writeVars, lexVars, parseVars, evalVars, rangerVars>>

NextRender == RenderScopes \/ RenderTemplate \/ RenderWrite

SpecRender == InitRender /\ [][NextRender]_vars


(***************************************************************************)
(* Claims about the renderer, stated over SpecRender.                      *)
(***************************************************************************)

\* The data handed to the renderer binds the name of the template function.
TemplateFuncSupplied ==
    rend.r.templateFuncName \in (DOMAIN rend.r.scopeData) \cup (DOMAIN rend.data)

\* The template function as the template sees it when its evaluation begins.
TemplateFuncSeen ==
    Value(rend.res.scopes0, Len(rend.res.scopes0), rend.r.templateFuncName)

\* C28: the name of the template function is reserved: when the scope data
\* of the renderer or the data map handed to Render binds it, Render
\* returns an error, and the template that is evaluated sees the template
\* function under that name, never a value of the user.
C28_TemplateFuncNameReserved ==
    /\ (rpc = "done" /\ TemplateFuncSupplied) => rend.err # NoError
    /\ rend.res.scopes0 # <<>> =>
          TemplateFuncSeen = <<TemplateFunc(rend.r, rend.data), TRUE>>


\* The history of the evaluation of the template that Render was called for.
RenderTrace == rend.res.ev.trace

\* The calls of the template function that evaluated a template.
RenderCalls ==
    {k \in 1..Len(RenderTrace) :
        /\ RenderTrace[k].t = "call"
        /\ RenderTrace[k].f = "renderTemplateFunc"
        /\ RenderTrace[k].sub.scopes0 # <<>>}

\* The names that the let statements of the events tr[from..to] bind.
LetNames(tr, from, to) == {tr[j].name : j \in {i \in from..to : tr[i].t = "let"}}

\* The names that only the template calling at event k binds: those of its
\* data map and of its let statements up to the call, without the names of
\* the scope data, the template function and the data handed to the call.
CallerOnly(k) ==
    ({n \in DOMAIN rend.data : rend.data[n] # NilValue} \cup LetNames(RenderTrace, 1, k))
        \ ((DOMAIN rend.r.scopeData) \cup {rend.r.templateFuncName}
              \cup (DOMAIN RenderTrace[k].params[2].m))

\* The names that the template rendered by the call at event k binds.
SubLets(k) == LetNames(RenderTrace[k].sub.ev.trace, 1, Len(RenderTrace[k].sub.ev.trace))

Bound(scopes, n) == HasValue(scopes, Len(scopes), n)

\* C29: a template rendered through the template function sees none of the
\* bindings of the calling template: a name that only the data map or a
\* let statement of the caller binds is unbound when the evaluation of the
\* rendered template begins and stays so unless that template binds it
\* itself, and what the rendered template binds is, for the caller, the
\* same after the call as before it.
C29_SubTemplateIsolated ==
    \A k \in RenderCalls :
        LET call == RenderTrace[k]
            subTrace == call.sub.ev.trace IN
        /\ \A n \in CallerOnly(k) :
              /\ ~Bound(call.sub.scopes0, n)
              /\ n \notin SubLets(k) =>
                    \A j \in 1..Len(subTrace) :
                        subTrace[j].t = "stmt" => ~Bound(subTrace[j].scopes, n)
        /\ \A n \in SubLets(k) :
              \A j \in (k + 1)..Len(RenderTrace) :
                  RenderTrace[j].t = "stmt" =>
                      Value(RenderTrace[j].scopes, Len(RenderTrace[j].scopes), n)
                          = Value(call.scopes, Len(call.scopes), n)

\* A template that bound a name of its own has rendered a template that
\* bound another one, and has gone on to a further statement.
C29_Witness ==
    /\ rpc = "done"
    /\ \E k \in RenderCalls :
          /\ CallerOnly(k) # {}
          /\ SubLets(k) \ CallerOnly(k) # {}
          /\ \E j \in (k + 1)..Len(RenderTrace) : RenderTrace[j].t = "stmt"


(***************************************************************************)
(* The rangers of package ranger as a state machine: a ranger is           *)
(* constructed by NewInt or New, then Next is called on it again and       *)
(* again, and after every call that returns true Value and Status are      *)
(* called.  rgr.oks and rgr.obs hold what the calls returned (history).    *)
(***************************************************************************)

\* Largest number of elements of a slice and of keys of a map handed to
\* New, and largest maxExclusive - minInclusive handed to NewInt.
MaxElems == 3

\* HashEntry{Key: k, Value: v}
HashEntry(key, v) == [k |-> "HashEntry", Key |-> key, Value |-> v]

\* ranger.New(v) panics if v is nil or neither a map, a slice nor an array.
RangerNewPanics(v) == v.k \notin {"map", "slice"}

\* ranger.New(v) when it does not panic; order is the order in which the
\* range statement of keys(h) visits the keys of a map.
RangerNew(v, order) ==
    IF v.k = "map" THEN [h |-> v.m, keys |-> order, index |-> -1]
    ELSE [s |-> v.els, index |-> -1]

\* sliceRanger.Next: <<the ranger after the call, ok>>
sliceRangerNext(rg) ==
    IF rg.index + 1 < Len(rg.s) THEN <<[rg EXCEPT !.index = rg.index + 1], TRUE>>
    ELSE <<rg, FALSE>>

\* sliceRanger.Value
sliceRangerValue(rg) == rg.s[rg.index + 1]

\* sliceRanger.Status
sliceRangerStatus(rg) == StatusValue(rg.index, Len(rg.s) - 1)

\* hashRanger.Next
hashRangerNext(rg) ==
    IF rg.index + 1 < Len(rg.keys) THEN <<[rg EXCEPT !.index = rg.index + 1], TRUE>>
    ELSE <<rg, FALSE>>

\* hashRanger.Value
hashRangerValue(rg) == HashEntry(rg.keys[rg.index + 1], rg.h[rg.keys[rg.index + 1]])

\* hashRanger.Status
hashRangerStatus(rg) == StatusValue(rg.index, Len(rg.keys) - 1)

\* The methods of the interface Ranger on an intRanger, a sliceRanger or a
\* hashRanger.
NextOf(rg) ==
    CASE "current" \in DOMAIN rg -> RangerNext(rg)
      [] "s" \in DOMAIN rg -> sliceRangerNext(rg)
      [] OTHER -> hashRangerNext(rg)

ValueOf(rg) ==
    CASE "current" \in DOMAIN rg -> RangerValueOf(rg)
      [] "s" \in DOMAIN rg -> sliceRangerValue(rg)
      [] OTHER -> hashRangerValue(rg)

StatusOf(rg) ==
    CASE "current" \in DOMAIN rg -> RangerStatus(rg)
      [] "s" \in DOMAIN rg -> sliceRangerStatus(rg)
      [] OTHER -> hashRangerStatus(rg)

RangerKeys == {<<"a">>, <<"b">>, <<"c">>, <<"d">>}

\* The calls that construct a ranger: NewInt(min, max), New of a slice, New
\* of a map (with the order of its keys), New(nil).
RangerRequests ==
    {[f |-> "NewInt", min |-> min, max |-> min + n] : min \in -1..1, n \in -1..MaxElems}
    \cup {[f |-> "New", v |-> SliceValue(s), order |-> <<>>] :
             s \in SeqsUpTo({IntValue(1), IntValue(2)}, MaxElems)}
    \cup UNION {{[f |-> "New", v |-> MapValue([key \in K |-> IntValue(Len(key))]),
                  order |-> order] : order \in Orders(K)} :
                     K \in {S \in SUBSET RangerKeys : Cardinality(S) <= MaxElems}}
    \cup {[f |-> "New", v |-> NilValue, order |-> <<>>]}

NoRanger == [index |-> -1]

InitRanger ==
    /\ \E req \in RangerRequests :
          rgr = [req |-> req, rg |-> NoRanger, oks |-> <<>>, obs |-> <<>>]
    /\ gpc = "new"
    /\ ScopeIdle /\ WriteIdle /\ LexerIdle /\ ParserIdle /\ EvalIdle /\ RenderIdle

\* r := NewInt(min, max) or r := New(v)
RangerConstruct ==
    /\ gpc = "new"
    /\ IF rgr.req.f = "NewInt"
       THEN IF NewIntPanics(rgr.req.min, rgr.req.max)
            THEN gpc' = "panicked" /\ rgr' = rgr
            ELSE gpc' = "ranging" /\ rgr' = [rgr EXCEPT !.rg = NewInt(rgr.req.min, rgr.req.max)]
       ELSE IF RangerNewPanics(rgr.req.v)
            THEN gpc' = "panicked" /\ rgr' = rgr
            ELSE gpc' = "ranging"
                 /\ rgr' = [rgr EXCEPT !.rg = RangerNew(rgr.req.v, rgr.req.order)]
    /\ UNCHANGED <<scopeVars, writeVars, lexVars, parseVars, evalVars, renderVars>>

\* ok := r.Next(); if ok { v := r.Value(); s := r.Status() }
RangerCallNext ==
    /\ gpc = "ranging"
    /\ Len(rgr.oks) < MaxElems + 2
    /\ LET n == NextOf(rgr.rg) IN
          rgr' = [rgr EXCEPT !.rg = n[1], !.oks = Append(@, n[2]),
                             !.obs = IF n[2]
                                     THEN Append(@, [Value |-> ValueOf(n[1]),
                                                     Status |-> StatusOf(n[1])])
                                     ELSE @]
    /\ gpc' = gpc
    /\ UNCHANGED <<scopeVars, writeVars, lexVars, parseVars, evalVars, renderVars>>

NextRanger == RangerConstruct \/ RangerCallNext

SpecRanger == InitRanger /\ [][NextRanger]_vars

(***************************************************************************)
(* Claims about the rangers, stated over SpecRanger.                       *)
(***************************************************************************)

\* The elements that the ranger asked for ranges over: the integers of
\* min..max - 1, the elements of the slice, the entries of the map in the
\* order of its keys.
Elements(req) ==
    IF req.f = "NewInt" THEN [i \in 1..(req.max - req.min) |-> IntValue(req.min + i - 1)]
    ELSE IF req.v.k = "slice" THEN req.v.els
    ELSE IF req.v.k = "map"
    THEN [i \in 1..Len(req.order) |-> HashEntry(req.order[i], req.v.m[req.order[i]])]
    ELSE <<>>

\* The number N of the claim, max - min for NewInt.
Elems(req) == IF req.f = "NewInt" THEN req.max - req.min ELSE Len(Elements(req))

\* The request is one of those that the claim is about.
Rangeable(req) == Elems(req) >= 0 /\ (req.f = "New" => req.v.k \in {"slice", "map"})

\* C30: a ranger over N >= 0 elements returns true from exactly its first N
\* calls of Next and false from every later one; after the k-th successful
\* call Value is the k-th element and Status has Index = k - 1, First iff
\* k = 1, Last iff k = N, HasMore = not Last and Odd = not Even; for N = 0
\* the ranger is there and its first Next returns false.
C30_RangerYieldsItsElements ==
    (gpc # "new" /\ Rangeable(rgr.req)) =>
        /\ gpc = "ranging"
        /\ \A c \in 1..Len(rgr.oks) : rgr.oks[c] = (c <= Elems(rgr.req))
        /\ \A k \in 1..Len(rgr.obs) :
              /\ rgr.obs[k].Value = Elements(rgr.req)[k]
              /\ rgr.obs[k].Status.Index = k - 1
              /\ rgr.obs[k].Status.First = (k = 1)
              /\ rgr.obs[k].Status.Last = (k = Elems(rgr.req))
              /\ rgr.obs[k].Status.HasMore = ~rgr.obs[k].Status.Last
              /\ rgr.obs[k].Status.Odd = ~rgr.obs[k].Status.Even

(***************************************************************************)
(* The pipeline of lexer, parser and evaluator on a source in literal      *)
(* mode: the goroutine of Tokens sends its tokens to a consumer that keeps *)
(* receiving, Parse makes the program of them, and Eval evaluates it with  *)
(* the default literal stringer.                                           *)
(***************************************************************************)

\* The runes of the sources of the pipeline.
PipelineAlphabet == {"a", " ", "\n", "<", "%", ">"}

\* The state after lexer.New(r), with the default of starting in literal
\* mode.
InitPipeline ==
    /\ input \in SeqsUpTo(PipelineAlphabet, MaxLen)
    /\ optStartInCode = FALSE
    /\ l = NewLexer
    /\ state = NilState
    /\ lpc = "new"
    /\ sendTok = NoToken
    /\ received = <<>>
    /\ consumer = "receiving"
    /\ doneClosed = FALSE
    /\ ScopeIdle /\ WriteIdle /\ ParserIdle /\ EvalIdle /\ RenderIdle /\ RangerIdle

\* prog, err := p.Parse() on the tokens received, and evaluator.New()
PipelineParse ==
    /\ lpc = "exited"
    /\ epc = "idle"
    /\ \E parsedProg \in {ParseProgram(received)} :
          IF parsedProg = NoExpr
          THEN /\ epc' = "failed"
               /\ UNCHANGED <<prog, ev, frame, ret>>
          ELSE /\ prog' = parsedProg
               /\ ev' = NewEvaluator
               /\ frame' = [i |-> 0, os |-> <<>>]
               /\ ret' = NoRet
               /\ epc' = "new"
    /\ UNCHANGED <<scopeVars, writeVars, lexVars, parseVars, renderVars, rangerVars>>

NextPipeline ==
    \/ Tokens
    \/ LexerCall
    \/ Receive
    \/ LexerResume
    \/ LexerExit
    \/ PipelineParse
    \/ EvalCall
    \/ EvalStatement
    \/ EvalReturn

SpecPipeline == InitPipeline /\ [][NextPipeline]_vars

\* The source has no <% sequence.
NoCodeStart(src) == \A i \in 1..(Len(src) - 1) : ~(src[i] = "<" /\ src[i + 1] = "%")

\* Eval has returned the text text as its value.
Yields(text) == epc = "done" /\ ret = [o |-> StringValue(text), err |-> NoError]

\* The pipeline is over, and the reader did not fail.
PipelineOver == epc \in {"done", "failed"} /\ NoIllegalOrError(received)

\* C31 as claimed: for every source without <%, lexing in literal mode,
\* parsing and evaluating with the default literal stringer yields a single
\* value equal to the text of the source.
C31_LiteralRoundTripAny == (PipelineOver /\ NoCodeStart(input)) => Yields(input)

\* C31, amended: for every source without <% that is not empty, lexing in
\* literal mode, parsing and evaluating with the default literal stringer
\* yields the text of the source as the value; the empty source yields nil.
C31_LiteralRoundTrip ==
    (PipelineOver /\ NoCodeStart(input)) =>
        IF input # <<>> THEN Yields(input)
        ELSE epc = "done" /\ ret = [o |-> NilValue, err |-> NoError]

\* A source with a line break and with %> has gone through the pipeline.
C31_Witness ==
    /\ Yields(input)
    /\ NoCodeStart(input)
    /\ \E i \in 1..(Len(input) - 1) : input[i] = "%" /\ input[i + 1] = ">"
    /\ \E i \in 1..Len(input) : input[i] = "\n"

(***************************************************************************)
(* Claims about the keys of hash literals, stated over SpecParserHash.     *)
(***************************************************************************)

\* The source is { key: value } with an identifier as its key.
IdentKeyHash ==
    /\ Len(tokens) = 6
    /\ TokenTypes(tokens) = <<"LeftBrace", "Ident", "Colon", tokens[4].type, "RightBrace", "EOF">>

\* C32: a hash literal whose key is an expression that is no literal string,
\* as the identifier in { key: "bar" }, is accepted: Parse returns a
\* program whose statement is the hash expression.
C32_ExpressionKeyAccepted ==
    (ppc \in {"done", "failed"} /\ IdentKeyHash) =>
        /\ ppc = "done"
        /\ Len(parsed.program.stmts) = 1
        /\ parsed.program.stmts[1].expr.k = "HashExpression"

(***************************************************************************)
(* Claims about what Eval leaves behind, stated over SpecEval.             *)
(***************************************************************************)

\* The statements that the evaluation has begun.
StmtEvents == {k \in 1..Len(ev.trace) : ev.trace[k].t = "stmt"}

\* C33: whenever Eval returns, with a value or with an error, ev.scope is
\* again the scope handed to Eval and ev.loopLevel is 0; ev.loopLevel is
\* never negative, neither between the statements of the program nor when
\* a statement of a nested block begins.
C33_EvalRestoresScopeAndLoopLevel ==
    /\ epc = "done" => (CurrentScope(ev) = 1 /\ ev.loopLevel = 0)
    /\ ev.loopLevel >= 0
    /\ \A k \in StmtEvents : ev.trace[k].loopLevel >= 0

\* Eval has returned an error that a statement raised in the block
\* of a for expression.
C33_Witness ==
    /\ epc = "done"
    /\ ret.err # NoError
    /\ LET k == CHOOSE j \in StmtEvents : \A i \in StmtEvents : i <= j IN
          /\ ev.trace[k].loopLevel >= 1
          /\ Len(ev.trace[k].scopes) >= 3

(***************************************************************************)
(* Claims about the blocks of if expressions, stated over SpecParserIf:    *)
(* Parse on the sources that begin with if and go on with if, elseif,      *)
(* else, end and the identifier a.                                         *)
(***************************************************************************)

\* Largest number of tokens after the first if.
MaxIfTokens == 5

IfAlphabet == {SymIf, SymElseIf, SymElse, SymEnd, Id("a")}

IfInputs == {MkTokens(<<SymIf>> \o s) : s \in SeqsUpTo(IfAlphabet, MaxIfTokens)}

SpecParserIf == InitParserOn(IfInputs) /\ [][NextParser]_vars

\* The if expressions of the statements stmts, of their conditions and of
\* their blocks.
RECURSIVE IfsOfStatements(_), IfsOfExpression(_)
IfsOfStatements(stmts) ==
    UNION {IfsOfExpression(stmts[n].expr) :
              n \in {m \in 1..Len(stmts) : stmts[m].k = "ExpressionStatement"}}

IfsOfExpression(x) ==
    IF x.k # "IfExpression" THEN {}
    ELSE {x} \cup UNION {IfsOfExpression(x.conds[j].cond)
                             \cup IfsOfStatements(x.conds[j].block.stmts) :
                                j \in 1..Len(x.conds)}

\* The tokens toks from the i-th on hold an else or an elseif that follows
\* an else of the same if expression; open has, for every if expression
\* that is not ended, whether its else has been seen.
RECURSIVE ElseAfterElse(_, _, _)
ElseAfterElse(toks, i, open) ==
    IF i > Len(toks) THEN FALSE
    ELSE CASE toks[i].type = "If" -> ElseAfterElse(toks, i + 1, Append(open, FALSE))
           [] toks[i].type = "End" /\ open # <<>> ->
                 ElseAfterElse(toks, i + 1, SubSeq(open, 1, Len(open) - 1))
           [] toks[i].type \in {"Else", "ElseIf"} /\ open # <<>> ->
                 \/ open[Len(open)]
                 \/ ElseAfterElse(toks, i + 1,
                                  [open EXCEPT ![Len(open)] = toks[i].type = "Else"])
           [] OTHER -> ElseAfterElse(toks, i + 1, open)

\* The blocks of the if expression x that have no condition.
ElseBlocks(x) == {j \in 1..Len(x.conds) : x.conds[j].cond = NoExpr}

\* C34: every if expression of a program that Parse returns has at least
\* one conditional block and at most one block without a condition, which
\* is then the last one; a source in which an else or an elseif follows an
\* else of the same if expression is rejected with a parse error.
C34_IfBlocksWellFormed ==
    /\ ppc = "done" =>
          \A x \in IfsOfStatements(parsed.program.stmts) :
              /\ Len(x.conds) >= 1
              /\ Cardinality(ElseBlocks(x)) <= 1
              /\ ElseBlocks(x) \subseteq {Len(x.conds)}
    /\ (ppc \in {"done", "failed"} /\ ElseAfterElse(tokens, 1, <<>>)) =>
          (ppc = "failed" /\ parsed.err # NoError)

\* Parse has returned an if expression with an elseif and, last, an else.
C34_Witness ==
    /\ ppc = "done"
    /\ \E x \in IfsOfStatements(parsed.program.stmts) :
          Len(x.conds) = 3 /\ ElseBlocks(x) = {3}

(***************************************************************************)
(* Claims about the positions and the texts of the tokens, stated over     *)
(* SpecLexer.                                                              *)
(***************************************************************************)

\* The position (line2, col2) is not before (line1, col1).
NotBefore(line2, col2, line1, col1) ==
    line2 > line1 \/ (line2 = line1 /\ col2 >= col1)

\* C35: the positions of the tokens the lexer has sent are 1-based and, from
\* each token to the next, not decreasing in the order of line and column;
\* the EOF, Illegal and Error tokens are included.
C35_PositionsMonotonic ==
    /\ \A n \in 1..Len(received) : received[n].line >= 1 /\ received[n].col >= 1
    /\ \A n \in 1..(Len(received) - 1) :
          NotBefore(received[n + 1].line, received[n + 1].col,
                    received[n].line, received[n].col)


\* C36: every Literal token the lexer has sent has a text that is not empty;
\* reaching <% with nothing collected sends no Literal token.
C36_LiteralsNotEmpty ==
    \A n \in 1..Len(received) :
        received[n].type = "Literal" => received[n].lit # <<>>

(***************************************************************************)
(* Read-your-writes of the scopes, stated over SpecScope.                  *)
(***************************************************************************)

\* C37: when no scope on the parent chain of s, s included, is locked,
\* s.Value(n) returns v right after s.Set(n, v), whatever the scopes of the
\* chain bind, n bound both in s and in an ancestor of s included.
C37_ReadYourWrites ==
    [][LET c == lastCall' IN
       (c.op = "Set" /\ \A t \in 1..c.s : ~locked[t]) =>
           Value(values', c.s, c.name) = <<c.v, TRUE>>]_vars

(***************************************************************************)
(* template/renderer.go: the reader of Renderer.Render and the lexer       *)
(* goroutine.  consumer is the goroutine of Renderer.Render: "receiving"   *)
(* while Parse runs, "stopped" once Parse has returned, "closed" once the  *)
(* deferred rd.Close() has run.                                            *)
(***************************************************************************)

\* Longest template of the specification of the reader.
MaxTemplateLen == 5

ReaderAlphabet == {"<", "%", ")", "a", " "}

\* The size of the buffer of bufio.NewReader.
defaultBufSize == 4096

\* The ReadRune calls that take the lexer from lx0 to lx1 read the template
\* reader: the buffered reader reads it when its buffer is drained, which is
\* at every defaultBufSize-th rune and for the read that finds io.EOF.
ReadsReader(lx0, lx1) ==
    \/ \E q \in lx0.pos..(lx1.pos - 1) : q % defaultBufSize = 0
    \/ lx1.nextEOF /\ ~lx0.nextEOF

\* The error Parse returns on the tokens toks, when no further token can be
\* received.
RECURSIVE ParseLoopError(_)
ParseLoopError(ps) ==
    IF currTokenIs(ps, "EOF") THEN NoError
    ELSE Let(parseStatement(ps), LAMBDA r :
         IF r.err # NoError THEN r.err ELSE ParseLoopError(r.p))

ParseError(toks) ==
    Let(parserInitialize(NewParser(toks)), LAMBDA r :
    IF r.err # NoError THEN r.err ELSE ParseLoopError(r.p))

\* Parse, having received the tokens toks, is at a receive from p.ch.
AtReceive(toks) == ParseError(toks).msg = "panic: nil pointer dereference"

\* render: lexer.New(r) of the loaded template, before l.Tokens().
InitReader ==
    /\ input \in SeqsUpTo(ReaderAlphabet, MaxTemplateLen)
    /\ optStartInCode = FALSE
    /\ l = NewLexer
    /\ state = NilState
    /\ lpc = "new"
    /\ sendTok = NoToken
    /\ received = <<>>
    /\ consumer = "receiving"
    /\ doneClosed = FALSE
    /\ ScopeIdle /\ WriteIdle /\ ParserIdle /\ EvalIdle /\ RenderIdle /\ RangerIdle

\* p.nextToken = <-p.ch meets the send of the lexer goroutine.
ParserReceive == AtReceive(received) /\ Receive

\* Parse returns, with the program or with an error, and closes done.
ParseReturns == ~AtReceive(received) /\ ConsumerStop

\* Renderer.Render returns, after the evaluation and the write or with the
\* error of Parse, and its deferred rd.Close() runs.
ReaderClose ==
    /\ consumer = "stopped"
    /\ consumer' = "closed"
    /\ UNCHANGED <<input, optStartInCode, l, state, lpc, sendTok, received, doneClosed,
                   scopeVars, writeVars, parseVars, evalVars, renderVars, rangerVars>>

NextReader ==
    \/ Tokens
    \/ LexerCall
    \/ LexerResume
    \/ LexerExit
    \/ ParserReceive
    \/ ParseReturns
    \/ ReaderClose

SpecReader == InitReader /\ [][NextReader]_vars

\* C38: the template reader is not read after it has been closed: in every
\* interleaving of the lexer goroutine with the goroutine of Renderer.Render,
\* the renders that stop with a parse error included, no step of the lexer
\* that reads the reader is taken once rd.Close() has run.
C38_NoReadAfterClose ==
    [][ReadsReader(l, l') => consumer # "closed"]_vars

(***************************************************************************)
(* The break and continue flags when Eval returns, stated over SpecEval.   *)
(***************************************************************************)

\* C39: whenever Eval has returned, with a value or with an error, the
\* break-requested and the continue-requested flag of the Evaluator are both
\* false, as they are on a fresh Evaluator.
C39_FlagsClearedOnReturn ==
    epc = "done" => (~ev.breakRequested /\ ~ev.continueRequested)

(***************************************************************************)
(* The output of a failed Render, stated over SpecRender.                  *)
(***************************************************************************)

\* The calls of the template function during the evaluation of the
\* template m that rendered a template to a text that is not empty.
RenderedSubs ==
    {k \in 1..Len(RenderTrace) :
        /\ RenderTrace[k].t = "call"
        /\ RenderTrace[k].f = "renderTemplateFunc"
        /\ RenderTrace[k].sub.err = NoError
        /\ RenderTrace[k].sub.out # <<>>}

\* C40: when the lexing, the parsing or the evaluation of the template
\* fails, Render returns the error and no byte has been written to the
\* writer; bytes are written only after the whole template has been
\* evaluated without an error.
C40_NoOutputOnFailure ==
    /\ rend.err # NoError => rend.out = <<>>
    /\ rend.out # <<>> =>
          /\ rpc = "done"
          /\ rend.sc.err = NoError
          /\ rend.res.err = NoError
          /\ rend.res.scopes0 # <<>>

\* Render has returned the error of an evaluation that failed after the
\* template function had rendered a template to some text, and nothing has
\* been written.
C40_Witness ==
    /\ rpc = "done"
    /\ rend.err # NoError
    /\ rend.res.err # NoError
    /\ RenderedSubs # {}
    /\ rend.out = <<>>

====
